---- MODULE Spec2Model ----
(***************************************************************************)
(* Attendance reporting pipeline (Burnwood-ccdocs/master-attendance).      *)
(*                                                                         *)
(* Spec          : one department worksheet under repeated runs of         *)
(*                 AttendanceReportGenerator._update_sheet_and_get_statuses *)
(*                 (generate_report.py), with the spreadsheet calls of     *)
(*                 _update_department_sheet allowed to raise.              *)
(* SpecClassify  : the two classification ladders as pure functions,       *)
(*                 AttendanceTracker.categorize_attendance                 *)
(*                 (attendance_tracker.py) and                             *)
(*                 AttendanceReportGenerator._calculate_statuses.          *)
(* SpecExtract   : the functions that read the payload, as pure functions: *)
(*                 get_first_check_in_times, get_hr_team_members and       *)
(*                 get_joining_times.                                      *)
(* SpecRun       : the construction of an AttendanceReportGenerator and    *)
(*                 one run of run_consolidated_report over a list of       *)
(*                 departments, with any call of a department's            *)
(*                 processing allowed to raise.                            *)
(* SpecRetry     : one call of a function wrapped by with_retry            *)
(*                 (weekly_attendance.py).                                 *)
(* SpecJobs      : the morning job and the end-of-day job of main.py on    *)
(*                 one department worksheet, request by request.           *)
(*                                                                         *)
(* Times of day are minutes since midnight; a datetime of the run's date   *)
(* is its time of day, since every datetime of one run is built by         *)
(* datetime.combine(date, time, tzinfo=tz) with the same date and tz.      *)
(* Python indices are 0-based, the sequences here are 1-based.             *)
(***************************************************************************)
EXTENDS Integers, Sequences, FiniteSets, TLC

VARIABLES
    worksheet,      \* values of the department worksheet (get_all_values)
    date,           \* the date of the last run, as a day number
    pc,             \* "idle" | "done": position of the scheduled job
    runs,           \* jobs started so far
    employees,      \* roster passed to the last _update_department_sheet
    first_entries,  \* first-check-in map of the last run
    status_data,    \* return value of _update_sheet_and_get_statuses
    outcome,        \* how the last run ended
    c_in,           \* SpecClassify, SpecExtract: the inputs of the function
    c_out,          \* SpecClassify, SpecExtract: what the function returned
    run,            \* SpecRun: the locals of run_consolidated_report
    sheets,         \* SpecRun: the values of each department's worksheet
    slack,          \* SpecRun: the messages posted to the channel
    emails,         \* SpecRun: the notifications sent by email
    calls,          \* SpecRun: the requests made to the spreadsheet
    retry,          \* SpecRetry: the locals of with_retry's wrapper
    jobs            \* SpecJobs: the locals of each scheduled job

vars == <<worksheet, date, pc, runs, employees, first_entries, status_data,
          outcome, c_in, c_out, run, sheets, slack, emails, calls, retry,
          jobs>>

sheetVars == <<worksheet, date, pc, runs, employees, first_entries,
               status_data, outcome>>

classifyVars == <<c_in, c_out>>

runVars == <<run, sheets, slack, emails, calls>>

retryVars == <<retry>>

jobVars == <<jobs>>

(***************************************************************************)
(* Bounds of the model.                                                    *)
(***************************************************************************)
MaxDates == 2       \* days the scheduler runs for
MaxReports == 2     \* entries of dateReport in one payload
MaxRuns == 2        \* scheduled jobs in one behaviour

(***************************************************************************)
(* Emails and names.                                                       *)
(***************************************************************************)
Emails == {"carol@x.com", " Carol@X.com", "dave@x.com"}

\* str.lower().strip() on the addresses of the model
LowerStrip(email) ==
    CASE email = " Carol@X.com" -> "carol@x.com"
      [] OTHER -> email

\* the user directory as cached by fetch_user_info: email -> fullname
user_cache == [e \in {"carol@x.com", "dave@x.com"} |->
                  IF e = "carol@x.com" THEN "Carol" ELSE "Dave"]

get_user_name(email) ==
    IF email \in DOMAIN user_cache THEN user_cache[email] ELSE email

\* date.strftime('%Y-%m-%d')
DateStrings == <<"2024-01-01", "2024-01-02", "2024-01-03", "2024-01-04",
                 "2024-01-05", "2024-01-06">>

strftime(d) == DateStrings[d]

Dates == 1..MaxDates

(***************************************************************************)
(* Time arithmetic.                                                        *)
(***************************************************************************)
\* int(x / y) for integers: truncation toward zero
IntDiv(x, y) == IF x >= 0 THEN x \div y ELSE -((-x) \div y)

\* int((check_in - start_dt).total_seconds() / 60)
MinutesLate(check_in, start_dt) == IntDiv((check_in - start_dt) * 60, 60)

\* datetime.strptime(s, "%H:%M").time(): a begin time is a pair <<h, m>>;
\* a pair outside the clock's range raises ValueError (None here)
strptime(hm) ==
    IF Len(hm) = 2 /\ hm[1] \in 0..23 /\ hm[2] \in 0..59
    THEN hm[1] * 60 + hm[2]
    ELSE -1

\* dt.strftime("%I:%M %p"): hour on the 12-hour clock, minute, AM or PM
strftime_IMp(t) ==
    <<((t \div 60 + 11) % 12) + 1, t % 60,
      IF t \div 60 < 12 THEN "AM" ELSE "PM">>

(***************************************************************************)
(* Configuration (config.py is read, never written, by the program).       *)
(***************************************************************************)
Department == "HR"

DEPARTMENTS_CONFIG == [d \in {"HR", "IT"} |->
                          IF d = "HR" THEN {"HR Project"} ELSE {"IT Project"}]

DEFAULT_START_TIME == <<9, 0>>

DEPARTMENT_START_TIMES == [d \in {"IT"} |-> <<10, 0>>]

\* DEPARTMENT_START_TIMES.get(department, DEFAULT_START_TIME), parsed
DepartmentStart(department) ==
    strptime(IF department \in DOMAIN DEPARTMENT_START_TIMES
             THEN DEPARTMENT_START_TIMES[department]
             ELSE DEFAULT_START_TIME)

(***************************************************************************)
(* The time-tracking payload: dateReport is a list of reports, a report    *)
(* has an email and projects, a project has a name and tasks, a task has   *)
(* time entries, an entry has a begin time.                                *)
(***************************************************************************)
TimeEntryLists ==
    { <<>>,
      <<[beginDatetime |-> <<9, 5>>]>>,
      <<[beginDatetime |-> <<9, 6>>]>>,
      <<[beginDatetime |-> <<9, 31>>]>> }

MkReport(e, p, t) ==
    [email |-> e,
     projects |-> <<[projectName |-> p, tasks |-> <<[timeEntries |-> t]>>]>>]

Reports ==
    { MkReport(e, "HR Project", t) : e \in Emails, t \in TimeEntryLists }
    \cup { MkReport(e, "IT Project", <<[beginDatetime |-> <<9, 5>>]>>) :
             e \in Emails }

SeqsUpTo(S, n) == UNION { [1..k -> S] : k \in 0..n }

Payloads == { [dateReport |-> r] : r \in SeqsUpTo(Reports, MaxReports) }

\* an empty dict
EmptyMap == [x \in {} |-> 0]

\* the payload None, which fetch_webwork_data returns when the request
\* fails: falsy, without the key dateReport, and without the method get
None == [None |-> TRUE]

IsNone(data) == "None" \in DOMAIN data

MapPut(f, k, v) == [x \in DOMAIN f \cup {k} |-> IF x = k THEN v ELSE f[x]]

(***************************************************************************)
(* get_department_employees_from_webwork                                   *)
(***************************************************************************)
RECURSIVE AddProjects(_, _, _, _, _)
\* the loop over report.get("projects", []) for one department
AddProjects(projects, i, email, dept, emps) ==
    IF i > Len(projects) THEN emps
    ELSE LET hit == projects[i].projectName \in DEPARTMENTS_CONFIG[dept]
             seen == \E j \in 1..Len(emps) : emps[j].email = email
             next == IF hit /\ ~seen
                     THEN Append(emps, [name |-> get_user_name(email),
                                        email |-> email])
                     ELSE emps
         IN AddProjects(projects, i + 1, email, dept, next)

RECURSIVE DeptEmployeesFrom(_, _, _, _)
DeptEmployeesFrom(reports, i, dept, emps) ==
    IF i > Len(reports) THEN emps
    ELSE DeptEmployeesFrom(reports, i + 1, dept,
             IF reports[i].email = ""
             THEN emps
             ELSE AddProjects(reports[i].projects, 1, reports[i].email,
                              dept, emps))

\* get_department_employees_from_webwork(webwork_data).get(department, [])
get_department_employees_from_webwork(webwork_data, dept) ==
    IF "dateReport" \notin DOMAIN webwork_data THEN <<>>
    ELSE DeptEmployeesFrom(webwork_data.dateReport, 1, dept, <<>>)

(***************************************************************************)
(* get_first_check_in_times                                                *)
(***************************************************************************)
RECURSIVE MinEntry(_, _, _)
\* the loop over task.get("timeEntries", []); first is None (-1) or minutes
MinEntry(entries, i, first) ==
    IF i > Len(entries) THEN first
    ELSE LET t == strptime(entries[i].beginDatetime)
         IN MinEntry(entries, i + 1,
                IF t = -1 THEN first
                ELSE IF first = -1 \/ t < first THEN t ELSE first)

RECURSIVE MinTasks(_, _, _)
MinTasks(tasks, i, first) ==
    IF i > Len(tasks) THEN first
    ELSE MinTasks(tasks, i + 1, MinEntry(tasks[i].timeEntries, 1, first))

RECURSIVE MinProjects(_, _, _)
MinProjects(projects, i, first) ==
    IF i > Len(projects) THEN first
    ELSE MinProjects(projects, i + 1, MinTasks(projects[i].tasks, 1, first))

RECURSIVE FirstEntriesFrom(_, _, _)
FirstEntriesFrom(reports, i, entries) ==
    IF i > Len(reports) THEN entries
    ELSE LET first == MinProjects(reports[i].projects, 1, -1)
         IN FirstEntriesFrom(reports, i + 1,
                IF reports[i].email = "" \/ first = -1
                THEN entries
                ELSE MapPut(entries, LowerStrip(reports[i].email), first))

get_first_check_in_times(webwork_data) ==
    IF "dateReport" \notin DOMAIN webwork_data THEN EmptyMap
    ELSE FirstEntriesFrom(webwork_data.dateReport, 1, EmptyMap)

(***************************************************************************)
(* _calculate_statuses                                                     *)
(***************************************************************************)
RECURSIVE CalcFrom_StrictThirty(_, _, _, _, _)
\* CalcFrom whose late bucket ends before 30 minutes
CalcFrom_StrictThirty(emps, i, entries, start_dt, acc) ==
    IF i > Len(emps) THEN acc
    ELSE LET emp == emps[i]
             normalized_email == LowerStrip(emp.email)
             bare == [name |-> emp.name, email |-> emp.email]
         IN IF normalized_email \in DOMAIN entries
            THEN LET check_in == entries[normalized_email]
                     minutes_late == MinutesLate(check_in, start_dt)
                     emp_details == [name |-> emp.name, email |-> emp.email,
                                     arrival_time |-> strftime_IMp(check_in),
                                     minutes_late |-> minutes_late]
                 IN CalcFrom_StrictThirty(emps, i + 1, entries, start_dt,
                      IF minutes_late <= 5
                      THEN [acc EXCEPT !.present = Append(@, emp_details)]
                      ELSE IF minutes_late < 30
                      THEN [acc EXCEPT !.late = Append(@, emp_details)]
                      ELSE [acc EXCEPT !.absent = Append(@, bare)])
            ELSE CalcFrom_StrictThirty(emps, i + 1, entries, start_dt,
                      [acc EXCEPT !.absent = Append(@, bare)])

RECURSIVE CalcFrom(_, _, _, _, _)
\* lines 273-301, for employees[i..]
CalcFrom(emps, i, entries, start_dt, acc) ==
    IF i > Len(emps) THEN acc
    ELSE LET emp == emps[i]
             normalized_email == LowerStrip(emp.email)
             bare == [name |-> emp.name, email |-> emp.email]
         IN IF normalized_email \in DOMAIN entries
            THEN LET check_in == entries[normalized_email]
                     minutes_late == MinutesLate(check_in, start_dt)
                     emp_details == [name |-> emp.name, email |-> emp.email,
                                     arrival_time |-> strftime_IMp(check_in),
                                     minutes_late |-> minutes_late]
                 IN CalcFrom(emps, i + 1, entries, start_dt,
                      IF minutes_late <= 5
                      THEN [acc EXCEPT !.present = Append(@, emp_details)]
                      ELSE IF minutes_late <= 30
                      THEN [acc EXCEPT !.late = Append(@, emp_details)]
                      ELSE [acc EXCEPT !.absent = Append(@, bare)])
            ELSE CalcFrom(emps, i + 1, entries, start_dt,
                      [acc EXCEPT !.absent = Append(@, bare)])

calculate_statuses(emps, entries, start_dt) ==
    CalcFrom(emps, 1, entries, start_dt,
             [fn |-> "none", present |-> <<>>, late |-> <<>>,
              initially_absent |-> <<>>, absent |-> <<>>])

(***************************************************************************)
(* _update_department_sheet: the table it computes from existing_data.     *)
(***************************************************************************)
\* ExistingRowStatus with the grace boundary excluded
ExistingRowStatus_StrictGrace(normalized_email, entries, start_dt) ==
    IF normalized_email \in DOMAIN entries
    THEN LET minutes_late == MinutesLate(entries[normalized_email], start_dt)
         IN IF minutes_late < 5 THEN "Present"
            ELSE IF minutes_late <= 30 THEN "Late"
            ELSE "Absent"
    ELSE "Absent"

\* the ladder of the loop over existing rows (lines 487-498)
ExistingRowStatus(normalized_email, entries, start_dt) ==
    IF normalized_email \in DOMAIN entries
    THEN LET minutes_late == MinutesLate(entries[normalized_email], start_dt)
         IN IF minutes_late <= 5 THEN "Present"
            ELSE IF minutes_late <= 30 THEN "Late"
            ELSE "Absent"
    ELSE "Absent"

\* NewRowStatus without the Late step
NewRowStatus_NoLate(normalized_email, entries, start_dt) ==
    IF normalized_email \in DOMAIN entries
    THEN LET minutes_late == MinutesLate(entries[normalized_email], start_dt)
         IN IF minutes_late <= 5 THEN "Present" ELSE "Absent"
    ELSE "Absent"

\* the ladder of the loop over new employees (lines 521-532)
NewRowStatus(normalized_email, entries, start_dt) ==
    IF normalized_email \in DOMAIN entries
    THEN LET minutes_late == MinutesLate(entries[normalized_email], start_dt)
         IN IF minutes_late <= 5 THEN "Present"
            ELSE IF minutes_late <= 30 THEN "Late"
            ELSE "Absent"
    ELSE "Absent"

\* lines 410-420: the table written to an empty worksheet
InitialStructure(emps) ==
    <<<<"Name", "Email">>>> \o
    [i \in 1..Len(emps) |-> <<emps[i].name, emps[i].email>>]

\* lines 431-435: index of the first header cell equal to date_str, 0 if none
DateColIndex(header_row, date_str) ==
    IF \E i \in 1..Len(header_row) : header_row[i] = date_str
    THEN CHOOSE i \in 1..Len(header_row) :
            /\ header_row[i] = date_str
            /\ \A j \in 1..(i - 1) : header_row[j] # date_str
    ELSE 0

\* while len(row) < n: row.append("")
PadRow(row, n) ==
    IF Len(row) >= n THEN row
    ELSE row \o [k \in 1..(n - Len(row)) |-> ""]

\* lines 437-448: the header and the rows after the date column is located
WithDateColumn(existing_data, date_str) ==
    IF DateColIndex(existing_data[1], date_str) # 0 THEN existing_data
    ELSE LET header_row == Append(existing_data[1], date_str)
         IN [i \in 1..Len(existing_data) |->
                IF i = 1 THEN header_row
                ELSE PadRow(existing_data[i], Len(header_row))]

\* lines 451-456: row has an email cell that is not empty
HasEmail(row) == Len(row) > 1 /\ row[2] # ""

\* lines 451-456: the normalized emails that index a row
email_to_row(existing_data) ==
    { LowerStrip(existing_data[i][2]) :
        i \in { j \in 2..Len(existing_data) : HasEmail(existing_data[j]) } }

\* line 461: {emp['email'].lower().strip(): emp for emp in employees};
\* a later employee replaces an earlier one with the same key
webwork_employees(emps) ==
    [k \in { LowerStrip(emps[i].email) : i \in 1..Len(emps) } |->
        emps[CHOOSE i \in 1..Len(emps) :
                /\ LowerStrip(emps[i].email) = k
                /\ \A j \in (i + 1)..Len(emps) :
                      LowerStrip(emps[j].email) # k]]

\* UpdateExistingRow that also rewrites the Email cell from the roster
UpdateExistingRow_RewritesEmail(row, header_len, date_col_index, emps, entries, start_dt) ==
    IF ~HasEmail(row) THEN row
    ELSE LET normalized_email == LowerStrip(row[2])
             padded == PadRow(row, header_len)
             ww == webwork_employees(emps)
         IN IF normalized_email \in DOMAIN ww
            THEN [padded EXCEPT
                    ![1] = ww[normalized_email].name,
                    ![2] = ww[normalized_email].email,
                    ![date_col_index] =
                        ExistingRowStatus(normalized_email, entries, start_dt)]
            ELSE [padded EXCEPT ![date_col_index] = "Absent"]

\* lines 471-509: one existing row after the loop over existing_data[1:]
UpdateExistingRow(row, header_len, date_col_index, emps, entries, start_dt) ==
    IF ~HasEmail(row) THEN row
    ELSE LET normalized_email == LowerStrip(row[2])
             padded == PadRow(row, header_len)
             ww == webwork_employees(emps)
         IN IF normalized_email \in DOMAIN ww
            THEN [padded EXCEPT
                    ![1] = ww[normalized_email].name,
                    ![date_col_index] =
                        ExistingRowStatus(normalized_email, entries, start_dt)]
            ELSE [padded EXCEPT ![date_col_index] = "Absent"]

\* NewRow without the backfill of the other date columns
NewRow_NoBackfill(emp, header_len, date_col_index, entries, start_dt) ==
    <<emp.name, emp.email,
      NewRowStatus(LowerStrip(emp.email), entries, start_dt)>>

\* lines 516-535: the row appended for an employee without a row
NewRow(emp, header_len, date_col_index, entries, start_dt) ==
    <<emp.name, emp.email>> \o
    [k \in 1..(header_len - 2) |->
        IF k + 2 = date_col_index
        THEN NewRowStatus(LowerStrip(emp.email), entries, start_dt)
        ELSE ""]

RECURSIVE NewRows_RawEmail(_, _, _, _, _, _, _)
\* NewRows that looks the email up in the index as it is spelled
NewRows_RawEmail(emps, i, index, header_len, date_col_index, entries, start_dt) ==
    IF i > Len(emps) THEN <<>>
    ELSE (IF emps[i].email \notin index
          THEN <<NewRow(emps[i], header_len, date_col_index, entries,
                        start_dt)>>
          ELSE <<>>)
         \o NewRows_RawEmail(emps, i + 1, index, header_len, date_col_index,
                             entries, start_dt)

RECURSIVE NewRows(_, _, _, _, _, _, _)
\* lines 512-537: email_to_row is not updated while rows are appended
NewRows(emps, i, index, header_len, date_col_index, entries, start_dt) ==
    IF i > Len(emps) THEN <<>>
    ELSE (IF LowerStrip(emps[i].email) \notin index
          THEN <<NewRow(emps[i], header_len, date_col_index, entries,
                        start_dt)>>
          ELSE <<>>)
         \o NewRows(emps, i + 1, index, header_len, date_col_index, entries,
                    start_dt)

\* ReconciledTable that keeps the rows of the roster only
ReconciledTable_RosterOnly(existing, emps, entries, date_str, start_dt) ==
    LET data == WithDateColumn(existing, date_str)
        header_row == data[1]
        date_col_index == DateColIndex(header_row, date_str)
        updated == [i \in 1..Len(data) |->
                      IF i = 1 THEN header_row
                      ELSE UpdateExistingRow(data[i], Len(header_row),
                              date_col_index, emps, entries, start_dt)]
        InRoster(row) ==
            LowerStrip(row[2]) \in DOMAIN webwork_employees(emps)
    IN <<header_row>> \o SelectSeq(Tail(updated), InRoster)
       \o NewRows(emps, 1, email_to_row(data), Len(header_row),
                  date_col_index, entries, start_dt)

\* lines 424-537: existing_data as passed to worksheet.update
ReconciledTable(existing, emps, entries, date_str, start_dt) ==
    LET data == WithDateColumn(existing, date_str)
        header_row == data[1]
        date_col_index == DateColIndex(header_row, date_str)
        updated == [i \in 1..Len(data) |->
                      IF i = 1 THEN header_row
                      ELSE UpdateExistingRow(data[i], Len(header_row),
                              date_col_index, emps, entries, start_dt)]
    IN updated \o NewRows(emps, 1, email_to_row(data), Len(header_row),
                          date_col_index, entries, start_dt)

\* the worksheet after a run of _update_department_sheet in which no
\* spreadsheet call raises
update_department_sheet(existing, emps, entries, date_str, start_dt) ==
    IF existing = <<>>
    THEN InitialStructure(emps)
    ELSE ReconciledTable(existing, emps, entries, date_str, start_dt)

(***************************************************************************)
(* AttendanceTracker.categorize_attendance                                 *)
(***************************************************************************)
\* line 218: datetime.time(17, 0)
five_pm == strptime(<<17, 0>>)

RECURSIVE CategorizeFrom_DropsAfterFive(_, _, _, _, _, _)
\* CategorizeFrom that appends nothing for a check-in at or after 17:00
CategorizeFrom_DropsAfterFive(hr_team_emails, i, entries, START_TIME, CUSTOM_START_TIMES, acc) ==
    IF i > Len(hr_team_emails) THEN acc
    ELSE LET email == hr_team_emails[i]
             name == get_user_name(email)
             start_dt == IF email \in DOMAIN CUSTOM_START_TIMES
                         THEN strptime(CUSTOM_START_TIMES[email])
                         ELSE strptime(START_TIME)
             start_cutoff == start_dt
             sixty_after == start_dt + 60
             bare == [email |-> email, name |-> name]
             next ==
               IF email \notin DOMAIN entries
               THEN [acc EXCEPT !.absentees = Append(@, bare)]
               ELSE LET first_entry == entries[email]
                        minutes_late == MinutesLate(first_entry, start_dt)
                        timed == [email |-> email, name |-> name,
                                  arrival_time |-> strftime_IMp(first_entry)]
                        lated == [email |-> email, name |-> name,
                                  arrival_time |-> strftime_IMp(first_entry),
                                  minutes_late |-> minutes_late]
                    IN IF first_entry <= start_cutoff
                       THEN [acc EXCEPT !.on_time = Append(@, timed)]
                       ELSE IF first_entry < sixty_after
                       THEN [acc EXCEPT !.late = Append(@, lated)]
                       ELSE IF first_entry < five_pm
                       THEN [acc EXCEPT !.very_late = Append(@, lated)]
                       ELSE acc
         IN CategorizeFrom_DropsAfterFive(hr_team_emails, i + 1, entries, START_TIME,
                           CUSTOM_START_TIMES, next)

RECURSIVE CategorizeFrom(_, _, _, _, _, _)
\* lines 231-275, for hr_team_emails[i..]
CategorizeFrom(hr_team_emails, i, entries, START_TIME, CUSTOM_START_TIMES, acc) ==
    IF i > Len(hr_team_emails) THEN acc
    ELSE LET email == hr_team_emails[i]
             name == get_user_name(email)
             start_dt == IF email \in DOMAIN CUSTOM_START_TIMES
                         THEN strptime(CUSTOM_START_TIMES[email])
                         ELSE strptime(START_TIME)
             start_cutoff == start_dt
             sixty_after == start_dt + 60
             bare == [email |-> email, name |-> name]
             next ==
               IF email \notin DOMAIN entries
               THEN [acc EXCEPT !.absentees = Append(@, bare)]
               ELSE LET first_entry == entries[email]
                        minutes_late == MinutesLate(first_entry, start_dt)
                        timed == [email |-> email, name |-> name,
                                  arrival_time |-> strftime_IMp(first_entry)]
                        lated == [email |-> email, name |-> name,
                                  arrival_time |-> strftime_IMp(first_entry),
                                  minutes_late |-> minutes_late]
                    IN IF first_entry <= start_cutoff
                       THEN [acc EXCEPT !.on_time = Append(@, timed)]
                       ELSE IF first_entry < sixty_after
                       THEN [acc EXCEPT !.late = Append(@, lated)]
                       ELSE IF first_entry < five_pm
                       THEN [acc EXCEPT !.very_late = Append(@, lated)]
                       ELSE [acc EXCEPT !.absentees = Append(@, bare)]
         IN CategorizeFrom(hr_team_emails, i + 1, entries, START_TIME,
                           CUSTOM_START_TIMES, next)

\* categorize_attendance whose absentees carry arrival_time "Absent", as
\* the records of get_joining_times do
categorize_attendance_AbsentTimed(entries, hr_team_emails, START_TIME, CUSTOM_START_TIMES) ==
    LET r == CategorizeFrom(hr_team_emails, 1, entries, START_TIME,
                   CUSTOM_START_TIMES,
                   [fn |-> "categorize_attendance", on_time |-> <<>>,
                    late |-> <<>>, very_late |-> <<>>, absentees |-> <<>>])
    IN [r EXCEPT !.absentees =
          [k \in 1..Len(r.absentees) |->
              [email |-> r.absentees[k].email, name |-> r.absentees[k].name,
               arrival_time |-> "Absent"]]]

categorize_attendance(entries, hr_team_emails, START_TIME, CUSTOM_START_TIMES) ==
    CategorizeFrom(hr_team_emails, 1, entries, START_TIME,
                   CUSTOM_START_TIMES,
                   [fn |-> "categorize_attendance", on_time |-> <<>>,
                    late |-> <<>>, very_late |-> <<>>, absentees |-> <<>>])

(***************************************************************************)
(* AttendanceTracker.get_hr_team_members and get_joining_times             *)
(***************************************************************************)
HR_PROJECT_NAME == "HR Project"

\* lines 100-106: the emails of the reports that have the HR project
HrProjectEmails(reports) ==
    { reports[i].email :
        i \in { j \in 1..Len(reports) :
                  /\ reports[j].email # ""
                  /\ \E p \in 1..Len(reports[j].projects) :
                        reports[j].projects[p].projectName
                           = HR_PROJECT_NAME } }

\* get_hr_team_members that removes the excluded emails before it adds
\* the additional ones
get_hr_team_members_ExcludeFirst(data, ADDITIONAL_HR_EMAILS, EXCLUDED_EMAILS) ==
    IF IsNone(data) \/ DOMAIN data = {} \/ "dateReport" \notin DOMAIN data
    THEN {}
    ELSE (HrProjectEmails(data.dateReport) \ EXCLUDED_EMAILS)
            \cup ADDITIONAL_HR_EMAILS

\* lines 92-128; the list returned is in no particular order (a set)
get_hr_team_members(data, ADDITIONAL_HR_EMAILS, EXCLUDED_EMAILS) ==
    IF IsNone(data) \/ DOMAIN data = {} \/ "dateReport" \notin DOMAIN data
    THEN {}
    ELSE (HrProjectEmails(data.dateReport) \cup ADDITIONAL_HR_EMAILS)
            \ EXCLUDED_EMAILS

\* parse_time (lines 26-34): None (-1 here) when int() or datetime.time
\* raises ValueError
parse_time(time_str) ==
    IF Len(time_str) = 2 /\ time_str[1] \in 0..23 /\ time_str[2] \in 0..59
    THEN time_str[1] * 60 + time_str[2]
    ELSE -1

RECURSIVE JoinEntry(_, _, _)
\* line 155-158: the loop over task.get("timeEntries", [])
JoinEntry(entries, i, first_entry) ==
    IF i > Len(entries) THEN first_entry
    ELSE LET begin_time == parse_time(entries[i].beginDatetime)
         IN JoinEntry(entries, i + 1,
                IF begin_time # -1
                   /\ (first_entry = -1 \/ begin_time < first_entry)
                THEN begin_time ELSE first_entry)

RECURSIVE JoinTasks(_, _, _)
JoinTasks(tasks, i, first_entry) ==
    IF i > Len(tasks) THEN first_entry
    ELSE JoinTasks(tasks, i + 1,
                   JoinEntry(tasks[i].timeEntries, 1, first_entry))

RECURSIVE JoinProjects(_, _, _)
JoinProjects(projects, i, first_entry) ==
    IF i > Len(projects) THEN first_entry
    ELSE JoinProjects(projects, i + 1,
                      JoinTasks(projects[i].tasks, 1, first_entry))

RECURSIVE JoinReports(_, _, _, _)
\* lines 148-161: the loop over data.get("dateReport", [])
JoinReports(reports, i, hr_team_emails, entries) ==
    IF i > Len(reports) THEN entries
    ELSE LET email == reports[i].email
             first_entry == JoinProjects(reports[i].projects, 1, -1)
         IN JoinReports(reports, i + 1, hr_team_emails,
                IF email \notin hr_team_emails \/ first_entry = -1
                THEN entries
                ELSE MapPut(entries, email, first_entry))

\* lines 130-177; raised names the exception that leaves the function,
\* and joining_times holds the record appended for each email
get_joining_times(data, ADDITIONAL_HR_EMAILS, EXCLUDED_EMAILS) ==
    LET hr_team_emails == get_hr_team_members(data, ADDITIONAL_HR_EMAILS,
                                              EXCLUDED_EMAILS)
    IN IF IsNone(data)
       THEN [fn |-> "get_joining_times", raised |-> "AttributeError"]
       ELSE LET entries ==
                  JoinReports(IF "dateReport" \in DOMAIN data
                              THEN data.dateReport ELSE <<>>,
                              1, hr_team_emails, EmptyMap)
            IN [fn |-> "get_joining_times", raised |-> "",
                first_entries |-> entries,
                hr_team_emails |-> hr_team_emails,
                joining_times |->
                   [email \in hr_team_emails |->
                      IF email \in DOMAIN entries
                      THEN [email |-> email, name |-> get_user_name(email),
                            arrival_time |-> strftime_IMp(entries[email])]
                      ELSE [email |-> email, name |-> get_user_name(email),
                            arrival_time |-> "Absent"]]]


(***************************************************************************)
(* Spec: scheduled jobs on one department worksheet.  A job runs           *)
(* _update_sheet_and_get_statuses for the department and returns; the      *)
(* arguments and the result of the run stay visible until the job returns. *)
(***************************************************************************)
NoStatus == [fn |-> "none", present |-> <<>>, late |-> <<>>,
             initially_absent |-> <<>>, absent |-> <<>>]

\* outside SpecRun no run of run_consolidated_report is in progress
NoRun == [pc |-> "none"]

\* outside SpecRetry no wrapped call is in progress
NoRetry == [pc |-> "none"]

\* outside SpecJobs no job is scheduled
NoJobs == [j \in {} |-> 0]

NoSheets == [d \in DOMAIN DEPARTMENTS_CONFIG |-> <<>>]

\* the worksheet when the scheduler starts: without values, or as earlier
\* runs left it (the initial structure for carol, then the merge of the
\* first date with carol on time)
StartSheets ==
    { <<>>,
      <<<<"Name", "Email", "2024-01-01">>,
        <<"Carol", "carol@x.com", "Present">>>> }

Init ==
    /\ worksheet \in StartSheets
    /\ date = 1
    /\ pc = "idle"
    /\ runs = 0
    /\ employees = <<>>
    /\ first_entries = EmptyMap
    /\ status_data = NoStatus
    /\ outcome = "none"
    /\ c_in = EmptyMap
    /\ c_out = [fn |-> "none"]
    /\ run = NoRun
    /\ sheets = NoSheets
    /\ slack = <<>>
    /\ emails = <<>>
    /\ calls = <<>>
    /\ retry = NoRetry
    /\ jobs = NoJobs

\* the roster and the first-check-in map a run resolves, for every payload
Resolved ==
    { [employees |-> get_department_employees_from_webwork(w, Department),
       first_entries |-> get_first_check_in_times(w)] : w \in Payloads }

\* the locals of _update_sheet_and_get_statuses for a payload and a date
Begin(r, d) ==
    /\ pc = "idle"
    /\ runs < MaxRuns
    /\ runs' = runs + 1
    /\ pc' = "done"
    /\ date' = d
    /\ employees' = r.employees
    /\ first_entries' = r.first_entries
    /\ UNCHANGED classifyVars
    /\ UNCHANGED runVars
    /\ UNCHANGED retryVars
    /\ UNCHANGED jobVars

\* lines 371-373: no employees for the department, the sheet is not touched
RunNoEmployees(r, d) ==
    /\ r.employees = <<>>
    /\ Begin(r, d)
    /\ outcome' = "no_employees"
    /\ status_data' = NoStatus
    /\ UNCHANGED worksheet

\* no spreadsheet call raises
RunOk(r, d) ==
    /\ r.employees # <<>>
    /\ Begin(r, d)
    /\ outcome' = "ok"
    /\ status_data' = calculate_statuses(r.employees, r.first_entries,
                                         DepartmentStart(Department))
    /\ worksheet' = update_department_sheet(worksheet, r.employees,
                        r.first_entries, strftime(d),
                        DepartmentStart(Department))

\* a run that reaches the spreadsheet calls exists for some payload
SomeRoster == \E r \in Resolved : r.employees # <<>>

\* a run in which a spreadsheet call raises: the exception leaves
\* _update_department_sheet (line 556) and _update_sheet_and_get_statuses
\* returns None (lines 390-392)
Raise(d, how) ==
    /\ pc = "idle"
    /\ runs < MaxRuns
    /\ SomeRoster
    /\ runs' = runs + 1
    /\ pc' = "done"
    /\ date' = d
    /\ employees' = <<>>
    /\ first_entries' = EmptyMap
    /\ status_data' = NoStatus
    /\ outcome' = how
    /\ UNCHANGED classifyVars
    /\ UNCHANGED runVars
    /\ UNCHANGED retryVars
    /\ UNCHANGED jobVars

\* worksheet.get_all_values() (line 407) raises: nothing was written
RunReadFails(d) ==
    /\ Raise(d, "read_failed")
    /\ UNCHANGED worksheet

\* worksheet.clear() (line 541) raises: nothing was cleared or written
RunClearFails(d) ==
    /\ worksheet # <<>>
    /\ Raise(d, "clear_failed")
    /\ UNCHANGED worksheet

\* worksheet.update() raises (line 542 after the clear of line 541, or line
\* 420 on an empty worksheet): the worksheet holds no values
RunUpdateFails(d) ==
    /\ Raise(d, "update_failed")
    /\ worksheet' = <<>>

\* the job returns: the locals of the run are gone
Finish ==
    /\ pc = "done"
    /\ pc' = "idle"
    /\ employees' = <<>>
    /\ first_entries' = EmptyMap
    /\ status_data' = NoStatus
    /\ outcome' = "none"
    /\ UNCHANGED <<worksheet, date, runs>>
    /\ UNCHANGED classifyVars
    /\ UNCHANGED runVars
    /\ UNCHANGED retryVars
    /\ UNCHANGED jobVars

Next ==
    \/ \E r \in Resolved, d \in Dates : RunNoEmployees(r, d)
    \/ \E r \in Resolved, d \in Dates : RunOk(r, d)
    \/ \E d \in Dates : RunReadFails(d)
    \/ \E d \in Dates : RunClearFails(d)
    \/ \E d \in Dates : RunUpdateFails(d)
    \/ Finish

Spec == Init /\ [][Next]_vars

(***************************************************************************)
(* Vocabulary of the claims about the worksheet.                           *)
(***************************************************************************)
DataRows(ws) == 2..Len(ws)

RowEmails(ws) == { ws[i][2] : i \in { j \in DataRows(ws) : Len(ws[j]) > 1 } }

HeaderDates(ws) ==
    IF ws = <<>> THEN {} ELSE { ws[1][k] : k \in 3..Len(ws[1]) }

RosterKeys(emps) == { LowerStrip(emps[i].email) : i \in 1..Len(emps) }

\* the three-way status of an employee for the day, from the check-in map
StatusForDay(normalized_email, entries, start_dt) ==
    IF normalized_email \notin DOMAIN entries THEN "Absent"
    ELSE IF entries[normalized_email] - start_dt <= 5 THEN "Present"
    ELSE IF entries[normalized_email] - start_dt <= 30 THEN "Late"
    ELSE "Absent"

\* a step in which _update_department_sheet runs to its end
MergeStep == pc = "idle" /\ pc' = "done" /\ outcome' = "ok"

\* a step in which a department is processed and no error is raised
CompletedStep ==
    pc = "idle" /\ pc' = "done" /\ outcome' \in {"ok", "no_employees"}

\* a step in which a spreadsheet call raises
FailedStep ==
    pc = "idle" /\ pc' = "done"
    /\ outcome' \in {"read_failed", "clear_failed", "update_failed"}

(***************************************************************************)
(* C1: running _update_department_sheet a second time with the inputs of   *)
(* a completed run leaves the table of the first run: no date column, no   *)
(* row is added and no cell changes.  Stated of the code: it fails on an   *)
(* empty worksheet, where the first run writes names and emails only and   *)
(* the second adds the date column.                                        *)
(***************************************************************************)
C1_MergeIdempotent ==
    (pc = "done" /\ outcome = "ok") =>
        update_department_sheet(worksheet, employees, first_entries,
                                strftime(date), DepartmentStart(Department))
        = worksheet

(***************************************************************************)
(* C2: a run that completes without error keeps every employee row: the    *)
(* set of emails that have a row never shrinks, and a row keeps its place  *)
(* and its email, also when the employee is not in the roster of the run.  *)
(***************************************************************************)
C2_RowsNeverRemoved ==
    [][CompletedStep =>
          /\ RowEmails(worksheet) \subseteq RowEmails(worksheet')
          /\ Len(worksheet') >= Len(worksheet)
          /\ \A i \in DataRows(worksheet) :
                worksheet'[i][2] = worksheet[i][2]]_vars

\* a completed merge left the row of an employee who is not in the roster
C2_Witness ==
    /\ pc = "done" /\ outcome = "ok"
    /\ strftime(date) \in HeaderDates(worksheet)
    /\ \E i \in DataRows(worksheet) :
          LowerStrip(worksheet[i][2]) \notin RosterKeys(employees)

(***************************************************************************)
(* C3: every row of the worksheet has as many cells as the header row,     *)
(* after every run, starting from the empty worksheet.                     *)
(***************************************************************************)
C3_Rectangular ==
    \A i \in 1..Len(worksheet) : Len(worksheet[i]) = Len(worksheet[1])

\* a merge added a second date column to a sheet with rows and appended a
\* row for a new employee
C3_Witness ==
    /\ pc = "done" /\ outcome = "ok"
    /\ Len(worksheet) >= 3
    /\ Len(worksheet[1]) = 4
    /\ worksheet[Len(worksheet)][3] = ""

(***************************************************************************)
(* C4: a completed merge for date d changes, in the rows that existed      *)
(* before it, only the Name cell and the cell in the column of d: the      *)
(* Email cell and the cells under every other date header are unchanged,   *)
(* and the headers that existed keep their columns.                        *)
(***************************************************************************)
C4_OtherCellsUnchanged ==
    [][(MergeStep /\ worksheet # <<>>) =>
          /\ \A k \in 1..Len(worksheet[1]) :
                worksheet'[1][k] = worksheet[1][k]
          /\ \A i \in DataRows(worksheet) :
                \A k \in 2..Len(worksheet[i]) :
                    worksheet'[1][k] # strftime(date') =>
                        worksheet'[i][k] = worksheet[i][k]]_vars

\* a merge for the second date rewrote the name of a row that holds a
\* status under the first date
C4_Witness ==
    /\ pc = "done" /\ outcome = "ok" /\ date = 2
    /\ Len(worksheet) >= 2
    /\ Len(worksheet[1]) = 4
    /\ worksheet[1][3] = strftime(1)
    /\ worksheet[2][3] = "Late"
    /\ worksheet[2][1] = " Carol@X.com"
    /\ worksheet[2][2] = "carol@x.com"

(***************************************************************************)
(* C5: when a spreadsheet call raises part-way through a run, the          *)
(* worksheet still holds every employee row and every date column it held  *)
(* before the run.  Stated of the code: it fails when worksheet.update     *)
(* raises after worksheet.clear has emptied the worksheet.                 *)
(***************************************************************************)
C5_FailedRunKeepsRows ==
    [][FailedStep =>
          /\ RowEmails(worksheet) \subseteq RowEmails(worksheet')
          /\ HeaderDates(worksheet) \subseteq HeaderDates(worksheet')]_vars

\* the roster and the day of a completed merge are on the sheet: the
\* header has the date and every roster member has a row whose cell under
\* the date is the member's status
RosterRecorded(ws, emps, entries, d) ==
    /\ ws # <<>>
    /\ strftime(d) \in HeaderDates(ws)
    /\ \A m \in 1..Len(emps) :
          \E i \in DataRows(ws) :
              /\ LowerStrip(ws[i][2]) = LowerStrip(emps[m].email)
              /\ ws[i][DateColIndex(ws[1], strftime(d))] =
                    StatusForDay(LowerStrip(emps[m].email), entries,
                                 DepartmentStart(Department))

C7_MissingFromRosterAbsent ==
    [][(CompletedStep /\ Len(worksheet) >= 2) =>
          /\ strftime(date') \in HeaderDates(worksheet')
          /\ \A i \in DataRows(worksheet) :
                LowerStrip(worksheet[i][2]) \notin RosterKeys(employees') =>
                    worksheet'[i][DateColIndex(worksheet'[1],
                                               strftime(date'))] = "Absent"
      ]_vars

\* the roster entries of a run that have no row in the worksheet
Unmatched(ws, emps) ==
    { m \in 1..Len(emps) : LowerStrip(emps[m].email) \notin email_to_row(ws) }

(***************************************************************************)
(* C8: a merge into a worksheet that has values appends, for every roster  *)
(* member without a row, exactly one row: it holds the member's name and   *)
(* email, the member's status under the date of the merge and the empty    *)
(* string under every other date column; no other row is appended.         *)
(***************************************************************************)
C8_NewMemberRow ==
    [][(MergeStep /\ worksheet # <<>>) =>
          /\ Len(worksheet') - Len(worksheet)
                = Cardinality(Unmatched(worksheet, employees'))
          /\ \A m \in Unmatched(worksheet, employees') :
                /\ Cardinality({ j \in (Len(worksheet) + 1)..Len(worksheet') :
                                   worksheet'[j][2] = employees'[m].email })
                      = 1
                /\ \A j \in (Len(worksheet) + 1)..Len(worksheet') :
                      worksheet'[j][2] = employees'[m].email =>
                          /\ worksheet'[j][1] = employees'[m].name
                          /\ Len(worksheet'[j]) = Len(worksheet'[1])
                          /\ \A k \in 3..Len(worksheet'[1]) :
                                worksheet'[j][k] =
                                   IF worksheet'[1][k] = strftime(date')
                                   THEN StatusForDay(
                                          LowerStrip(employees'[m].email),
                                          first_entries',
                                          DepartmentStart(Department))
                                   ELSE ""]_vars

\* the scenario: headers Name, Email, 2024-01-01 with a row for carol,
\* merged for 2024-01-02 with the roster carol, dave
C8_Witness ==
    /\ pc = "done" /\ outcome = "ok" /\ date = 2
    /\ employees = <<[name |-> "Carol", email |-> "carol@x.com"],
                     [name |-> "Dave", email |-> "dave@x.com"]>>
    /\ Len(worksheet) = 3
    /\ worksheet[1] = <<"Name", "Email", "2024-01-01", "2024-01-02">>
    /\ worksheet[2][2] = "carol@x.com"
    /\ worksheet[2][3] = "Present"
    /\ worksheet[2][4] \in {"Present", "Late", "Absent"}
    /\ worksheet[3] = <<"Dave", "dave@x.com", "", "Late">>

(***************************************************************************)
(* SpecClassify: the classification functions applied to inputs drawn      *)
(* from bounded sets.                                                      *)
(***************************************************************************)
MaxTeam == 2        \* members of the team or roster that is classified

StartTimes == {<<9, 0>>, <<10, 0>>}

\* check-ins around the thresholds of each start time and of 17:00
CheckIns ==
    { strptime(s) + o : s \in StartTimes,
                        o \in {-1, 0, 3, 5, 6, 30, 31, 59, 60} }
    \cup {five_pm - 1, five_pm}

DistinctSeqs(S, n) ==
    { q \in SeqsUpTo(S, n) : \A i, j \in 1..Len(q) : q[i] = q[j] => i = j }

PartialMaps(S, n, V) ==
    UNION { [D -> V] : D \in { X \in SUBSET S : Cardinality(X) <= n } }

\* CUSTOM_START_TIMES of config.py: no override, or one for carol (a late
\* morning shift, or a shift that starts within an hour of 17:00)
CustomStartTimes ==
    { EmptyMap, [e \in {"carol@x.com"} |-> <<10, 0>>],
      [e \in {"carol@x.com"} |-> <<16, 30>>] }

ClassifyInputs ==
    [team : DistinctSeqs(Emails, MaxTeam),
     first_entries : PartialMaps(Emails, MaxTeam, CheckIns),
     START_TIME : {<<9, 0>>},
     CUSTOM_START_TIMES : CustomStartTimes]

NotClassified == [fn |-> "none"]

InitClassify ==
    /\ worksheet = <<>>
    /\ date = 1
    /\ pc = "idle"
    /\ runs = 0
    /\ employees = <<>>
    /\ first_entries = EmptyMap
    /\ status_data = NoStatus
    /\ outcome = "none"
    /\ c_in \in ClassifyInputs
    /\ c_out = NotClassified
    /\ run = NoRun
    /\ sheets = NoSheets
    /\ slack = <<>>
    /\ emails = <<>>
    /\ calls = <<>>
    /\ retry = NoRetry
    /\ jobs = NoJobs

\* AttendanceTracker.categorize_attendance(first_entries, hr_team_emails)
Categorize ==
    /\ c_out = NotClassified
    /\ c_out' = categorize_attendance(c_in.first_entries, c_in.team,
                                      c_in.START_TIME,
                                      c_in.CUSTOM_START_TIMES)
    /\ UNCHANGED c_in
    /\ UNCHANGED sheetVars
    /\ UNCHANGED runVars
    /\ UNCHANGED retryVars
    /\ UNCHANGED jobVars

\* the roster of the team, as get_department_employees_from_webwork
\* builds its entries
TeamEmployees(team) ==
    [i \in 1..Len(team) |-> [name |-> get_user_name(team[i]),
                             email |-> team[i]]]

\* the keys of the map are normalized, as get_first_check_in_times
\* writes them
NormalizedKeys(entries) == \A k \in DOMAIN entries : LowerStrip(k) = k

\* AttendanceReportGenerator._calculate_statuses(employees, first_entries,
\* start_dt)
Calculate ==
    /\ c_out = NotClassified
    /\ NormalizedKeys(c_in.first_entries)
    /\ c_out' = [calculate_statuses(TeamEmployees(c_in.team),
                                    c_in.first_entries,
                                    strptime(c_in.START_TIME))
                 EXCEPT !.fn = "_calculate_statuses"]
    /\ UNCHANGED c_in
    /\ UNCHANGED sheetVars
    /\ UNCHANGED runVars
    /\ UNCHANGED retryVars
    /\ UNCHANGED jobVars

NextClassify == Categorize \/ Calculate

SpecClassify == InitClassify /\ [][NextClassify]_vars

(***************************************************************************)
(* Vocabulary of the claims about classification.                          *)
(***************************************************************************)
\* the indices of a bucket whose record is for the email
InBucket(bucket, email) == { k \in 1..Len(bucket) : bucket[k].email = email }

\* the start time categorize_attendance is to use for a member
MemberStart(email) ==
    IF email \in DOMAIN c_in.CUSTOM_START_TIMES
    THEN strptime(c_in.CUSTOM_START_TIMES[email])
    ELSE strptime(c_in.START_TIME)

(***************************************************************************)
(* C9: a member without an entry in the first-check-in map is put in the   *)
(* absent bucket by categorize_attendance and by _calculate_statuses, in   *)
(* no other bucket, and the record holds the name and the email only: no   *)
(* arrival_time, no minutes_late.                                          *)
(***************************************************************************)
C9_NoCheckInIsAbsent ==
    /\ c_out.fn = "categorize_attendance" =>
          \A i \in 1..Len(c_in.team) :
              c_in.team[i] \notin DOMAIN c_in.first_entries =>
                  /\ InBucket(c_out.absentees, c_in.team[i]) # {}
                  /\ \A k \in InBucket(c_out.absentees, c_in.team[i]) :
                        DOMAIN c_out.absentees[k] = {"email", "name"}
                  /\ InBucket(c_out.on_time, c_in.team[i]) = {}
                  /\ InBucket(c_out.late, c_in.team[i]) = {}
                  /\ InBucket(c_out.very_late, c_in.team[i]) = {}
    /\ c_out.fn = "_calculate_statuses" =>
          \A i \in 1..Len(c_in.team) :
              LowerStrip(c_in.team[i]) \notin DOMAIN c_in.first_entries =>
                  /\ InBucket(c_out.absent, c_in.team[i]) # {}
                  /\ \A k \in InBucket(c_out.absent, c_in.team[i]) :
                        DOMAIN c_out.absent[k] = {"email", "name"}
                  /\ InBucket(c_out.present, c_in.team[i]) = {}
                  /\ InBucket(c_out.late, c_in.team[i]) = {}
                  /\ InBucket(c_out.initially_absent, c_in.team[i]) = {}

\* categorize_attendance classified a team of two, one member with a
\* check-in and one without
C9_WitnessCategorize ==
    /\ c_out.fn = "categorize_attendance"
    /\ Len(c_in.team) = 2
    /\ c_in.team[1] \in DOMAIN c_in.first_entries
    /\ c_in.team[2] \notin DOMAIN c_in.first_entries
    /\ Len(c_out.absentees) = 1

(***************************************************************************)
(* C10: categorize_attendance puts a check-in at or before start + 5       *)
(* minutes in on-time, and a later one under the late threshold of 30      *)
(* minutes in late.  Stated of the code: it fails for a check-in at 09:03  *)
(* with start 09:00, which the code puts in late, since it compares with   *)
(* the start time itself.                                                  *)
(***************************************************************************)
C10_GraceIsOnTime ==
    c_out.fn = "categorize_attendance" =>
        \A i \in 1..Len(c_in.team) :
            c_in.team[i] \in DOMAIN c_in.first_entries =>
                LET email == c_in.team[i]
                    first_entry == c_in.first_entries[email]
                IN /\ first_entry <= MemberStart(email) + 5 =>
                        /\ InBucket(c_out.on_time, email) # {}
                        /\ InBucket(c_out.late, email) = {}
                   /\ (first_entry > MemberStart(email) + 5
                        /\ first_entry < MemberStart(email) + 30) =>
                        /\ InBucket(c_out.late, email) # {}
                        /\ InBucket(c_out.on_time, email) = {}

(***************************************************************************)
(* C11: categorize_attendance puts a check-in more than 30 minutes after   *)
(* the member's start time and before 17:00 in very-late, with             *)
(* minutes_late the whole minutes from the start time to the check-in.     *)
(* Stated of the code: it fails for a check-in at start + 31 minutes,      *)
(* which the code puts in late, since very-late begins at start + 60.      *)
(***************************************************************************)
C11_VeryLateAfterThirty ==
    c_out.fn = "categorize_attendance" =>
        \A i \in 1..Len(c_in.team) :
            c_in.team[i] \in DOMAIN c_in.first_entries =>
                LET email == c_in.team[i]
                    first_entry == c_in.first_entries[email]
                IN (first_entry > MemberStart(email) + 30
                      /\ first_entry < five_pm) =>
                        /\ InBucket(c_out.very_late, email) # {}
                        /\ \A k \in InBucket(c_out.very_late, email) :
                              c_out.very_late[k].minutes_late
                                 = first_entry - MemberStart(email)
                        /\ InBucket(c_out.on_time, email) = {}
                        /\ InBucket(c_out.late, email) = {}
                        /\ InBucket(c_out.absentees, email) = {}

(***************************************************************************)
(* C12: categorize_attendance puts a check-in at or after 17:00 in the     *)
(* absent bucket and in no other, whatever the member's start time.        *)
(* Stated of the code: it fails for a member whose override start is       *)
(* 16:30 and who checks in at 17:00, since the comparisons with the start  *)
(* time come before the one with 17:00.                                    *)
(***************************************************************************)
C12_AfterCutoffAbsent ==
    c_out.fn = "categorize_attendance" =>
        \A i \in 1..Len(c_in.team) :
            c_in.team[i] \in DOMAIN c_in.first_entries =>
                LET email == c_in.team[i]
                    first_entry == c_in.first_entries[email]
                IN first_entry >= five_pm =>
                        /\ InBucket(c_out.absentees, email) # {}
                        /\ InBucket(c_out.on_time, email) = {}
                        /\ InBucket(c_out.late, email) = {}
                        /\ InBucket(c_out.very_late, email) = {}

\* the number of records for the email in the buckets of a result
TimesListed(buckets, email) ==
    LET Sum(a, b, c, d) == a + b + c + d
    IN Sum(Cardinality(InBucket(buckets[1], email)),
           Cardinality(InBucket(buckets[2], email)),
           Cardinality(InBucket(buckets[3], email)),
           Cardinality(InBucket(buckets[4], email)))

(***************************************************************************)
(* C13: _calculate_statuses puts an employee whose first check-in is at    *)
(* most 5 whole minutes after the start passed to it, or before it, in     *)
(* present; one whose check-in is 6 to 30 minutes after it in late; one    *)
(* whose check-in is more than 30 minutes after it, or who has no          *)
(* check-in, in absent; and in no other bucket.                            *)
(***************************************************************************)
C13_CalculateLadder ==
    c_out.fn = "_calculate_statuses" =>
        \A i \in 1..Len(c_in.team) :
            LET email == c_in.team[i]
                key == LowerStrip(email)
                start_dt == strptime(c_in.START_TIME)
                bucket ==
                    IF key \notin DOMAIN c_in.first_entries THEN "absent"
                    ELSE IF c_in.first_entries[key] - start_dt <= 5
                    THEN "present"
                    ELSE IF c_in.first_entries[key] - start_dt <= 30
                    THEN "late"
                    ELSE "absent"
            IN /\ (InBucket(c_out.present, email) # {}) = (bucket = "present")
               /\ (InBucket(c_out.late, email) # {}) = (bucket = "late")
               /\ (InBucket(c_out.absent, email) # {}) = (bucket = "absent")
               /\ InBucket(c_out.initially_absent, email) = {}

\* _calculate_statuses classified a roster of two, one member 5 minutes
\* and one 30 minutes after the start
C13_Witness ==
    /\ c_out.fn = "_calculate_statuses"
    /\ Len(c_in.team) = 2
    /\ \E k \in 1..Len(c_out.present) : c_out.present[k].minutes_late = 5
    /\ \E k \in 1..Len(c_out.late) : c_out.late[k].minutes_late = 30

\* the names of the buckets of a result that list the email
BucketsOf(result, names, email) ==
    { b \in names : InBucket(result[b], email) # {} }

(***************************************************************************)
(* C14: every classification path classifies a member against the          *)
(* member's override start time when CUSTOM_START_TIMES has one, else      *)
(* against the start time of the department (the global default where the  *)
(* department has none): the buckets of a member are those the function    *)
(* gives for the member alone with that start time.  Stated of the code:   *)
(* it fails for _calculate_statuses, which is passed the department start  *)
(* (line 376) and never reads CUSTOM_START_TIMES.                          *)
(***************************************************************************)
C14_StartResolution ==
    /\ c_out.fn = "categorize_attendance" =>
          \A i \in 1..Len(c_in.team) :
              LET email == c_in.team[i]
                  names == {"on_time", "late", "very_late", "absentees"}
                  alone == categorize_attendance(c_in.first_entries,
                               <<email>>,
                               IF email \in DOMAIN c_in.CUSTOM_START_TIMES
                               THEN c_in.CUSTOM_START_TIMES[email]
                               ELSE c_in.START_TIME,
                               EmptyMap)
              IN BucketsOf(c_out, names, email)
                    = BucketsOf(alone, names, email)
    /\ c_out.fn = "_calculate_statuses" =>
          \A i \in 1..Len(c_in.team) :
              LET email == c_in.team[i]
                  names == {"present", "late", "initially_absent", "absent"}
                  alone == calculate_statuses(TeamEmployees(<<email>>),
                               c_in.first_entries, MemberStart(email))
              IN BucketsOf(c_out, names, email)
                    = BucketsOf(alone, names, email)

(***************************************************************************)
(* C15: every member of the team is listed exactly once in the four        *)
(* buckets categorize_attendance returns, and every employee passed to     *)
(* _calculate_statuses exactly once in the four buckets it returns; the    *)
(* buckets list nobody else.                                               *)
(***************************************************************************)
C15_ExactlyOneBucket ==
    /\ c_out.fn = "categorize_attendance" =>
          LET buckets == <<c_out.on_time, c_out.late, c_out.very_late,
                           c_out.absentees>>
          IN /\ \A i \in 1..Len(c_in.team) :
                    TimesListed(buckets, c_in.team[i]) = 1
             /\ Len(buckets[1]) + Len(buckets[2]) + Len(buckets[3])
                   + Len(buckets[4]) = Len(c_in.team)
    /\ c_out.fn = "_calculate_statuses" =>
          LET buckets == <<c_out.present, c_out.late,
                           c_out.initially_absent, c_out.absent>>
          IN /\ \A i \in 1..Len(c_in.team) :
                    TimesListed(buckets, c_in.team[i]) = 1
             /\ Len(buckets[1]) + Len(buckets[2]) + Len(buckets[3])
                   + Len(buckets[4]) = Len(c_in.team)

\* categorize_attendance classified a team of two: one member checked in
\* at 17:00 and is absent, the other is very late
C15_Witness ==
    /\ c_out.fn = "categorize_attendance"
    /\ Len(c_in.team) = 2
    /\ Len(c_out.very_late) = 1
    /\ Len(c_out.absentees) = 1
    /\ c_out.absentees[1].email \in DOMAIN c_in.first_entries
    /\ c_in.first_entries[c_out.absentees[1].email] = five_pm

(***************************************************************************)
(* SpecExtract: the functions that read the payload, applied to payloads   *)
(* and lists drawn from bounded sets.                                      *)
(***************************************************************************)
\* lists of time entries: none, two in descending order, a begin time
\* that strptime rejects, and one of those before a well-formed one
ExtractEntryLists ==
    { <<>>,
      <<[beginDatetime |-> <<9, 31>>], [beginDatetime |-> <<9, 5>>]>>,
      <<[beginDatetime |-> <<25, 0>>]>>,
      <<[beginDatetime |-> <<25, 0>>], [beginDatetime |-> <<9, 6>>]>> }

MkProject(p, t) == [projectName |-> p, tasks |-> <<[timeEntries |-> t]>>]

\* one project, two projects, or one project with two tasks
ExtractProjectLists ==
    { <<MkProject(HR_PROJECT_NAME, t)>> : t \in ExtractEntryLists }
    \cup { <<MkProject("IT Project", <<[beginDatetime |-> <<9, 5>>]>>)>>,
           <<MkProject("IT Project", <<[beginDatetime |-> <<9, 5>>]>>),
             MkProject(HR_PROJECT_NAME, <<[beginDatetime |-> <<9, 31>>]>>)>>,
           <<[projectName |-> HR_PROJECT_NAME,
              tasks |-> <<[timeEntries |-> <<[beginDatetime |-> <<9, 31>>]>>],
                          [timeEntries |-> <<[beginDatetime |-> <<9, 6>>]>>]>>]>> }

ExtractReports ==
    { [email |-> e, projects |-> p] : e \in Emails, p \in ExtractProjectLists }

\* None, a dict without dateReport, and dicts with a dateReport list
ExtractPayloads ==
    { None, EmptyMap }
    \cup { [dateReport |-> r] : r \in SeqsUpTo(ExtractReports, MaxReports) }

\* ADDITIONAL_HR_EMAILS and EXCLUDED_EMAILS of config.py
EmailLists == { {}, {"dave@x.com"}, {"carol@x.com", "dave@x.com"} }

ExtractInputs ==
    [webwork_data : ExtractPayloads,
     ADDITIONAL_HR_EMAILS : EmailLists,
     EXCLUDED_EMAILS : EmailLists]

InitExtract ==
    /\ worksheet = <<>>
    /\ date = 1
    /\ pc = "idle"
    /\ runs = 0
    /\ employees = <<>>
    /\ first_entries = EmptyMap
    /\ status_data = NoStatus
    /\ outcome = "none"
    /\ c_in \in ExtractInputs
    /\ c_out = NotClassified
    /\ run = NoRun
    /\ sheets = NoSheets
    /\ slack = <<>>
    /\ emails = <<>>
    /\ calls = <<>>
    /\ retry = NoRetry
    /\ jobs = NoJobs

\* AttendanceReportGenerator.get_first_check_in_times(webwork_data, date)
FirstCheckIns ==
    /\ c_out = NotClassified
    /\ c_out' = [fn |-> "get_first_check_in_times",
                 first_entries |-> get_first_check_in_times(c_in.webwork_data)]
    /\ UNCHANGED c_in
    /\ UNCHANGED sheetVars
    /\ UNCHANGED runVars
    /\ UNCHANGED retryVars
    /\ UNCHANGED jobVars

\* AttendanceTracker.get_hr_team_members(data)
HrTeamMembers ==
    /\ c_out = NotClassified
    /\ c_out' = [fn |-> "get_hr_team_members",
                 hr_team_emails |->
                    get_hr_team_members(c_in.webwork_data,
                                        c_in.ADDITIONAL_HR_EMAILS,
                                        c_in.EXCLUDED_EMAILS)]
    /\ UNCHANGED c_in
    /\ UNCHANGED sheetVars
    /\ UNCHANGED runVars
    /\ UNCHANGED retryVars
    /\ UNCHANGED jobVars

\* AttendanceTracker.get_joining_times(data)
JoiningTimes ==
    /\ c_out = NotClassified
    /\ c_out' = get_joining_times(c_in.webwork_data,
                                  c_in.ADDITIONAL_HR_EMAILS,
                                  c_in.EXCLUDED_EMAILS)
    /\ UNCHANGED c_in
    /\ UNCHANGED sheetVars
    /\ UNCHANGED runVars
    /\ UNCHANGED retryVars
    /\ UNCHANGED jobVars

NextExtract == FirstCheckIns \/ HrTeamMembers \/ JoiningTimes

SpecExtract == InitExtract /\ [][NextExtract]_vars

(***************************************************************************)
(* Vocabulary of the claims about the payload.                             *)
(***************************************************************************)
\* the begin times of a report that strptime accepts
WellFormedTimes(report) ==
    { strptime(report.projects[p].tasks[t].timeEntries[e].beginDatetime) :
        <<p, t, e>> \in
          { x \in (1..2) \X (1..2) \X (1..2) :
              /\ x[1] <= Len(report.projects)
              /\ x[2] <= Len(report.projects[x[1]].tasks)
              /\ x[3] <= Len(report.projects[x[1]].tasks[x[2]].timeEntries)
              /\ strptime(report.projects[x[1]].tasks[x[2]]
                             .timeEntries[x[3]].beginDatetime) # -1 } }

\* the well-formed begin times of every report whose email normalizes to k
TimesOf(reports, k) ==
    UNION { WellFormedTimes(reports[i]) :
              i \in { j \in 1..Len(reports) :
                        /\ reports[j].email # ""
                        /\ LowerStrip(reports[j].email) = k } }

Minimum(S) == CHOOSE m \in S : \A n \in S : m <= n

(***************************************************************************)
(* C16: get_first_check_in_times maps each normalized email to the         *)
(* minimum of the well-formed begin times of all time entries that belong  *)
(* to the email, over all of its projects, tasks and report records, and   *)
(* has no key for an email without a well-formed entry.  Stated of the     *)
(* code: it fails when two report records have the same normalized email,  *)
(* where the minimum of the later record replaces that of the earlier.     *)
(***************************************************************************)
C16_MinimumOverAllEntries ==
    (c_out.fn = "get_first_check_in_times"
        /\ "dateReport" \in DOMAIN c_in.webwork_data) =>
        LET reports == c_in.webwork_data.dateReport
            keys == { LowerStrip(reports[i].email) : i \in 1..Len(reports) }
        IN /\ DOMAIN c_out.first_entries
                 = { k \in keys : TimesOf(reports, k) # {} }
           /\ \A k \in DOMAIN c_out.first_entries :
                 c_out.first_entries[k] = Minimum(TimesOf(reports, k))

\* no two keys of the map are spellings of one address
OneSpelling(f) ==
    \A x, y \in DOMAIN f : LowerStrip(x) = LowerStrip(y) => x = y

\* the map with every key lower-cased and trimmed
NormalizeKeys(f) ==
    [k \in { LowerStrip(x) : x \in DOMAIN f } |->
        f[CHOOSE x \in DOMAIN f : LowerStrip(x) = k]]

(***************************************************************************)
(* C17: the spelling of an email (letter case, surrounding whitespace) in  *)
(* the roster, the first-check-in map or the override table does not       *)
(* change the classification: a member is in the buckets in which the      *)
(* function puts the lower-cased, trimmed email when every key is          *)
(* lower-cased and trimmed.  Stated of the code: it fails for              *)
(* categorize_attendance, which looks emails up as they are spelled.       *)
(***************************************************************************)
C17_SpellingIrrelevant ==
    /\ (c_out.fn = "categorize_attendance"
          /\ OneSpelling(c_in.first_entries)) =>
          \A i \in 1..Len(c_in.team) :
              LET names == {"on_time", "late", "very_late", "absentees"}
                  normalized ==
                      categorize_attendance(
                          NormalizeKeys(c_in.first_entries),
                          <<LowerStrip(c_in.team[i])>>,
                          c_in.START_TIME,
                          NormalizeKeys(c_in.CUSTOM_START_TIMES))
              IN BucketsOf(c_out, names, c_in.team[i])
                    = BucketsOf(normalized, names, LowerStrip(c_in.team[i]))
    /\ c_out.fn = "_calculate_statuses" =>
          \A i \in 1..Len(c_in.team) :
              LET names == {"present", "late", "initially_absent", "absent"}
                  normalized ==
                      calculate_statuses(
                          TeamEmployees(<<LowerStrip(c_in.team[i])>>),
                          c_in.first_entries, strptime(c_in.START_TIME))
              IN BucketsOf(c_out, names, c_in.team[i])
                    = BucketsOf(normalized, names, LowerStrip(c_in.team[i]))

(***************************************************************************)
(* C18: for a payload that is None or has no dateReport list,              *)
(* get_first_check_in_times and get_joining_times return an empty          *)
(* first-check-in map and raise nothing.  Stated of the code: it fails     *)
(* for get_joining_times on the payload None, where data.get (line 148)    *)
(* raises AttributeError.                                                  *)
(***************************************************************************)
C18_NoPayloadEmptyMap ==
    (IsNone(c_in.webwork_data)
        \/ "dateReport" \notin DOMAIN c_in.webwork_data) =>
        /\ c_out.fn = "get_first_check_in_times" =>
              c_out.first_entries = EmptyMap
        /\ c_out.fn = "get_joining_times" =>
              /\ c_out.raised = ""
              /\ c_out.first_entries = EmptyMap

\* the emails that have the HR project in the payload
WithHrProject(data) ==
    IF IsNone(data) \/ "dateReport" \notin DOMAIN data THEN {}
    ELSE { e \in Emails :
             \E i \in 1..Len(data.dateReport) :
                 /\ data.dateReport[i].email = e
                 /\ \E p \in 1..Len(data.dateReport[i].projects) :
                       data.dateReport[i].projects[p].projectName
                          = HR_PROJECT_NAME }

(***************************************************************************)
(* C19 as claimed: for every payload and every pair of lists,              *)
(* get_hr_team_members returns the emails with the HR project in the       *)
(* payload, together with the include list, without the exclude list.      *)
(***************************************************************************)
C19_UnionMinusAlways ==
    c_out.fn = "get_hr_team_members" =>
        c_out.hr_team_emails
           = (WithHrProject(c_in.webwork_data)
                 \cup c_in.ADDITIONAL_HR_EMAILS) \ c_in.EXCLUDED_EMAILS

(***************************************************************************)
(* C19 as amended: the same, for every payload that has the dateReport     *)
(* list; for a payload that is None or a dict without dateReport the       *)
(* roster is empty, whatever the lists are.                                *)
(***************************************************************************)
C19_UnionMinusWithReportList ==
    c_out.fn = "get_hr_team_members" =>
        IF IsNone(c_in.webwork_data)
              \/ "dateReport" \notin DOMAIN c_in.webwork_data
        THEN c_out.hr_team_emails = {}
        ELSE c_out.hr_team_emails
                = (WithHrProject(c_in.webwork_data)
                      \cup c_in.ADDITIONAL_HR_EMAILS) \ c_in.EXCLUDED_EMAILS

\* the roster of a payload with an HR member, where dave is in both lists
\* and carol in the include list only
C19_Witness ==
    /\ c_out.fn = "get_hr_team_members"
    /\ c_in.ADDITIONAL_HR_EMAILS = {"carol@x.com", "dave@x.com"}
    /\ c_in.EXCLUDED_EMAILS = {"dave@x.com"}
    /\ WithHrProject(c_in.webwork_data) = {" Carol@X.com", "dave@x.com"}
    /\ c_out.hr_team_emails = {"carol@x.com", " Carol@X.com"}

(***************************************************************************)
(* C27: the worksheet starts without two rows of the same email, and       *)
(* after any sequence of merges no two rows of the worksheet have the      *)
(* same normalized (lower-cased, stripped) email, whatever roster the      *)
(* resolver produced and however its addresses are spelled.                *)
(***************************************************************************)
C27_OneRowPerNormalizedEmail ==
    \A i, j \in DataRows(worksheet) :
        (HasEmail(worksheet[i]) /\ HasEmail(worksheet[j])
         /\ LowerStrip(worksheet[i][2]) = LowerStrip(worksheet[j][2]))
        => i = j

(***************************************************************************)
(* C28: after a run that merged the roster into the worksheet, the cell    *)
(* of the run's date in the row of every roster member holds the status    *)
(* that names the bucket in which _calculate_statuses of the same run put  *)
(* the member: Present for present, Late for late, Absent for absent;      *)
(* and every roster member has such a row.                                 *)
(***************************************************************************)
\* the sheet word for the bucket of status_data that lists the email
BucketStatus(email) ==
    { "Present" : k \in InBucket(status_data.present, email) }
    \cup { "Late" : k \in InBucket(status_data.late, email) }
    \cup { "Absent" : k \in InBucket(status_data.absent, email) }

C28_SheetStatusIsBucket ==
    (pc = "done" /\ outcome = "ok" /\ strftime(date) \in HeaderDates(worksheet))
    => \A k \in 1..Len(employees) :
          /\ \E i \in DataRows(worksheet) :
                /\ HasEmail(worksheet[i])
                /\ LowerStrip(worksheet[i][2]) = LowerStrip(employees[k].email)
          /\ \A i \in DataRows(worksheet) :
                (/\ HasEmail(worksheet[i])
                 /\ LowerStrip(worksheet[i][2])
                       = LowerStrip(employees[k].email))
                => BucketStatus(employees[k].email)
                     = {worksheet[i][DateColIndex(worksheet[1],
                                                  strftime(date))]}

\* a run on the worksheet that had carol's row: carol is in the present
\* bucket and her row says Present, dave is in the late bucket and the
\* row appended for him says Late
C28_Witness ==
    /\ pc = "done"
    /\ outcome = "ok"
    /\ date = 1
    /\ InBucket(status_data.present, "carol@x.com") # {}
    /\ InBucket(status_data.late, "dave@x.com") # {}
    /\ worksheet = <<<<"Name", "Email", "2024-01-01">>,
                     <<"Carol", "carol@x.com", "Present">>,
                     <<"Dave", "dave@x.com", "Late">>>>

(***************************************************************************)
(* SpecRun: one run of run_consolidated_report(departments_to_process,     *)
(* date, run_type) by a new AttendanceReportGenerator, as the scheduler    *)
(* of main.py starts it.  The responses of the time-tracking API and of    *)
(* the user directory, the credentials of the sinks and the worksheets     *)
(* are given at the start.                                                 *)
(***************************************************************************)
RunReports ==
    { MkReport("carol@x.com", "HR Project", <<[beginDatetime |-> <<9, 5>>]>>),
      MkReport("dave@x.com", "HR Project", <<[beginDatetime |-> <<9, 6>>]>>),
      MkReport("dave@x.com", "HR Project", <<>>),
      MkReport("dave@x.com", "IT Project", <<>>),
      MkReport("carol@x.com", "IT Project", <<[beginDatetime |-> <<9, 31>>]>>) }

\* what fetch_webwork_data returns: None after a failed request, or the
\* decoded response
RunResponses ==
    { None, EmptyMap }
    \cup { [dateReport |-> r] : r \in SeqsUpTo(RunReports, MaxReports) }

\* departments_to_process: a report group of main.py, or all departments
DepartmentLists ==
    { q \in SeqsUpTo(DOMAIN DEPARTMENTS_CONFIG, 2) :
        \A i, j \in 1..Len(q) : q[i] = q[j] => i = j }

InitRun ==
    /\ worksheet = <<>>
    /\ date = 1
    /\ pc = "idle"
    /\ runs = 0
    /\ employees = <<>>
    /\ first_entries = EmptyMap
    /\ status_data = NoStatus
    /\ outcome = "none"
    /\ c_in = EmptyMap
    /\ c_out = NotClassified
    /\ run \in [pc : {"init"},
                google_credentials : {"valid", "invalid"},
                slack_credentials : BOOLEAN,
                gmail : {"disabled", "token valid", "token invalid",
                         "build fails"},
                raised : {""},
                departments_to_process : DepartmentLists,
                date : Dates,
                run_type : {"morning", "eod"},
                response : RunResponses,
                user_info : {"cached", "failed"},
                client : {FALSE},
                email_automation : {"None"},
                i : {1},
                first_entries : {EmptyMap},
                aggregated_results : {<<>>},
                outcomes : {<<>>},
                aborted : {FALSE},
                slack_error : {FALSE}]
    /\ sheets = [d \in DOMAIN DEPARTMENTS_CONFIG |->
                    IF d = "HR"
                    THEN <<<<"Name", "Email", "2024-01-01">>,
                           <<"Carol", "carol@x.com", "Present">>>>
                    ELSE <<>>]
    /\ slack = <<>>
    /\ emails = <<>>
    /\ calls = <<>>
    /\ retry = NoRetry
    /\ jobs = NoJobs

\* AttendanceReportGenerator.__init__ (lines 143-161), called at line 24
\* of main.py.  _authenticate_google_sheets returns None when the
\* service-account file cannot be read or used (lines 172-174) and line
\* 146 then raises AttributeError on None.  SlackNotifier.__init__ leaves
\* client None without SLACK_BOT_TOKEN or SLACK_CHANNEL_ID (lines 33-39).
\* EmailAutomation is constructed when EMAIL_AUTOMATION_ENABLED
\* (line 158): _authenticate (email_automation.py lines 40-69) refreshes
\* or asks for a token outside any try, and catches only what build raises
Construct ==
    /\ run.pc = "init"
    /\ run' = IF run.google_credentials = "invalid"
              THEN [run EXCEPT !.pc = "raised", !.raised = "AttributeError"]
              ELSE IF run.gmail = "token invalid"
              THEN [run EXCEPT !.pc = "raised", !.raised = "RefreshError",
                               !.client = run.slack_credentials]
              ELSE [run EXCEPT
                      !.pc = "fetch",
                      !.client = run.slack_credentials,
                      !.email_automation =
                          CASE run.gmail = "disabled" -> "None"
                            [] run.gmail = "token valid" -> "service"
                            [] OTHER -> "no service"]
    /\ UNCHANGED <<sheets, slack, emails, calls>>
    /\ UNCHANGED sheetVars
    /\ UNCHANGED classifyVars
    /\ UNCHANGED retryVars
    /\ UNCHANGED jobVars

\* lines 312-324: the payload is None or empty; the run posts the warning
\* when the chat sink has a client, and returns; what chat_postMessage
\* raises is caught at line 322
FetchFails(post_raises) ==
    /\ run.pc = "fetch"
    /\ (IsNone(run.response) \/ DOMAIN run.response = {})
    /\ run' = [run EXCEPT !.pc = "done", !.aborted = TRUE,
                          !.slack_error = run.client /\ post_raises]
    /\ slack' = IF run.client /\ ~post_raises
                THEN Append(slack, [kind |-> "api_error"])
                ELSE slack
    /\ UNCHANGED <<sheets, emails, calls>>
    /\ UNCHANGED sheetVars
    /\ UNCHANGED classifyVars
    /\ UNCHANGED retryVars
    /\ UNCHANGED jobVars

\* lines 312, 326-327: the payload is there
FetchOk ==
    /\ run.pc = "fetch"
    /\ ~(IsNone(run.response) \/ DOMAIN run.response = {})
    /\ run' = [run EXCEPT
                 !.pc = IF Len(run.departments_to_process) = 0
                        THEN "report" ELSE "loop",
                 !.first_entries = get_first_check_in_times(run.response)]
    /\ UNCHANGED <<sheets, slack, emails, calls>>
    /\ UNCHANGED sheetVars
    /\ UNCHANGED classifyVars
    /\ UNCHANGED retryVars
    /\ UNCHANGED jobVars

\* the loop of lines 329-336 after a department whose processing raised:
\* the exception leaves run_consolidated_report
AfterDepartment_ErrorEndsRun(r, raised) ==
    IF raised THEN [pc |-> "done", i |-> r.i]
    ELSE IF r.i < Len(r.departments_to_process)
    THEN [pc |-> "loop", i |-> r.i + 1]
    ELSE [pc |-> "report", i |-> r.i + 1]

\* the loop of lines 329-336 after a department: the exception was caught
\* at lines 390-392, so the loop goes on to the next department
AfterDepartment(r, raised) ==
    IF r.i < Len(r.departments_to_process)
    THEN [pc |-> "loop", i |-> r.i + 1]
    ELSE [pc |-> "report", i |-> r.i + 1]

\* the department the loop is at, and its roster (lines 368-369)
Current == run.departments_to_process[run.i]

\* fetch_user_info (lines 198-211), called by __init__ at line 161,
\* leaves user_cache empty when its request fails, and get_user_name
\* (line 215) then gives the email for the name
CurrentEmployees ==
    LET emps == get_department_employees_from_webwork(run.response, Current)
    IN  IF run.user_info = "cached" THEN emps
        ELSE [k \in 1..Len(emps) |->
                [name |-> emps[k].email, email |-> emps[k].email]]

\* the requests of the formatting helpers after the table was written
\* (lines 545-550): _format_header reads the values and formats row 1,
\* _apply_conditional_formatting reads the values and adds the rules of
\* the date columns, _add_dropdown_validation sets the validation of one
\* column from column 3 on; each helper catches what its request raises,
\* so the requests after a failing one are made all the same
FormatRequests(table, failing) ==
    LET Req(name) == [request |-> name, ok |-> name # failing]
        header_row == table[1]
    IN  <<Req("get_all_values"), Req("format"), Req("get_all_values")>>
        \o (IF Len(table) >= 2 /\ Len(header_row) > 2
            THEN <<Req("addConditionalFormatRule")>> ELSE <<>>)
        \o [col_num \in 1..(Len(header_row) - 2) |->
               Req("setDataValidation")]

\* a variant of Requests in which the formatting is requested after the
\* write of the table raised
Requests_FormatAfterFailedWrite(existing_data, table, how, failing) ==
    LET Req(name, ok) == [request |-> name, ok |-> ok]
    IN  CASE how \in {"resolve_failed", "no_employees"} -> <<>>
          [] how = "read_failed" -> <<Req("get_all_values", FALSE)>>
          [] how = "clear_failed" ->
                <<Req("get_all_values", TRUE), Req("clear", FALSE)>>
          [] how = "update_failed" /\ existing_data = <<>> ->
                <<Req("get_all_values", TRUE), Req("update", FALSE)>>
          [] how = "update_failed" /\ existing_data # <<>> ->
                <<Req("get_all_values", TRUE), Req("clear", TRUE),
                  Req("update", FALSE)>>
                \o FormatRequests(existing_data, failing)
          [] how \in {"ok", "format_failed"} /\ existing_data = <<>> ->
                <<Req("get_all_values", TRUE), Req("update", TRUE)>>
          [] OTHER ->
                <<Req("get_all_values", TRUE), Req("clear", TRUE),
                  Req("update", TRUE)>>
                \o FormatRequests(table, failing)

\* the requests one run of _update_department_sheet makes on the
\* worksheet (lines 407-550), by how the run went: none before the
\* worksheet is read (lines 368-373), the read (line 407), the one write
\* of the initial structure of an empty worksheet (lines 410-422), else
\* clear and update (lines 541-542) and then the formatting; a request
\* that raises outside the formatting helpers ends the run (lines 554-556)
Requests(existing_data, table, how, failing) ==
    LET Req(name, ok) == [request |-> name, ok |-> ok]
    IN  CASE how \in {"resolve_failed", "no_employees"} -> <<>>
          [] how = "read_failed" -> <<Req("get_all_values", FALSE)>>
          [] how = "clear_failed" ->
                <<Req("get_all_values", TRUE), Req("clear", FALSE)>>
          [] how = "update_failed" /\ existing_data = <<>> ->
                <<Req("get_all_values", TRUE), Req("update", FALSE)>>
          [] how = "update_failed" /\ existing_data # <<>> ->
                <<Req("get_all_values", TRUE), Req("clear", TRUE),
                  Req("update", FALSE)>>
          [] how \in {"ok", "format_failed"} /\ existing_data = <<>> ->
                <<Req("get_all_values", TRUE), Req("update", TRUE)>>
          [] OTHER ->
                <<Req("get_all_values", TRUE), Req("clear", TRUE),
                  Req("update", TRUE)>>
                \o FormatRequests(table, failing)

\* what a request to the Sheets API raises: an APIError that answers a
\* request over the quota, or any other exception
SinkErrors == {"rate limit", "other"}

\* one pass of the loop: _update_sheet_and_get_statuses returned status
\* (a dict, or None when returned is FALSE) and left the worksheet as ws;
\* failing is the formatting request that raised, if any, and error the
\* exception of the request that raised
Pass(how, raised, returned, status, ws, failing, error) ==
    /\ run.pc = "loop"
    /\ run' = [run EXCEPT
                 !.pc = AfterDepartment(run, raised).pc,
                 !.i = AfterDepartment(run, raised).i,
                 !.outcomes = Append(@, how),
                 !.aggregated_results =
                     IF returned
                     THEN Append(@, [department |-> Current,
                                     status_data |-> status])
                     ELSE @]
    /\ sheets' = [sheets EXCEPT ![Current] = ws]
    /\ calls' = LET requests == Requests(sheets[Current], ws, how, failing)
                 IN  calls \o [k \in 1..Len(requests) |->
                                 [worksheet |-> Current,
                                  request |-> requests[k].request,
                                  ok |-> requests[k].ok,
                                  error |-> IF requests[k].ok THEN ""
                                            ELSE error]]
    /\ UNCHANGED <<slack, emails>>
    /\ UNCHANGED sheetVars
    /\ UNCHANGED classifyVars
    /\ UNCHANGED retryVars
    /\ UNCHANGED jobVars

\* get_department_employees_from_webwork or the roster lookup raises
\* (lines 368-369)
DeptResolveRaises ==
    /\ run.pc = "loop"
    /\ Pass("resolve_failed", TRUE, FALSE, NoStatus, sheets[Current], "",
            "")

\* lines 371-373: nobody logged time on a project of the department
DeptNoEmployees ==
    /\ run.pc = "loop"
    /\ CurrentEmployees = <<>>
    /\ Pass("no_employees", FALSE, FALSE, NoStatus, sheets[Current], "",
            "")

\* the worksheet is not found and cannot be added, or get_all_values
\* raises (lines 399-407): nothing was written
DeptReadRaises ==
    /\ run.pc = "loop"
    /\ CurrentEmployees # <<>>
    /\ \E error \in SinkErrors :
          Pass("read_failed", TRUE, FALSE, NoStatus, sheets[Current], "",
               error)

\* worksheet.clear() raises (line 541)
DeptClearRaises ==
    /\ run.pc = "loop"
    /\ CurrentEmployees # <<>>
    /\ sheets[Current] # <<>>
    /\ \E error \in SinkErrors :
          Pass("clear_failed", TRUE, FALSE, NoStatus, sheets[Current], "",
               error)

\* worksheet.update() raises (line 420, or line 542 after the clear)
DeptUpdateRaises ==
    /\ run.pc = "loop"
    /\ CurrentEmployees # <<>>
    /\ \E error \in SinkErrors :
          Pass("update_failed", TRUE, FALSE, NoStatus, <<>>, "", error)

\* the table _update_department_sheet writes for the department at hand
CurrentTable ==
    update_department_sheet(sheets[Current], CurrentEmployees,
                            run.first_entries, strftime(run.date),
                            DepartmentStart(Current))

CurrentStatus ==
    calculate_statuses(CurrentEmployees, run.first_entries,
                       DepartmentStart(Current))

\* a formatting call raises after the table was written (lines 545-550):
\* _format_header, _apply_conditional_formatting and
\* _add_dropdown_validation catch what their calls raise
DeptFormatRaises ==
    /\ run.pc = "loop"
    /\ CurrentEmployees # <<>>
    /\ sheets[Current] # <<>>
    /\ \E failing \in {"format", "addConditionalFormatRule",
                       "setDataValidation"}, error \in SinkErrors :
          Pass("format_failed", TRUE, TRUE, CurrentStatus, CurrentTable,
               failing, error)

\* no call raises (lines 366-389)
DeptOk ==
    /\ run.pc = "loop"
    /\ CurrentEmployees # <<>>
    /\ Pass("ok", FALSE, TRUE, CurrentStatus, CurrentTable, "", "")

\* send_batch_notifications (email_automation.py lines 181-191) for one
\* department: the late employees, then the absent ones
NotificationsOf(entry) ==
    [k \in 1..Len(entry.status_data.late) |->
        [kind |-> "late", to |-> entry.status_data.late[k].email]]
    \o [k \in 1..Len(entry.status_data.absent) |->
        [kind |-> "absent", to |-> entry.status_data.absent[k].email]]

RECURSIVE BatchNotifications(_, _)
BatchNotifications(aggregated_results, i) ==
    IF i > Len(aggregated_results) THEN <<>>
    ELSE NotificationsOf(aggregated_results[i])
         \o BatchNotifications(aggregated_results, i + 1)

\* lines 338-362: no report without results; else one chat message for
\* all departments (send_consolidated_report: nothing without a client,
\* and a SlackApiError is caught), then the emails of an end-of-day run
\* (_send_message sends nothing without a service)
Report(slack_api_error) ==
    /\ run.pc = "report"
    /\ run' = [run EXCEPT
                 !.pc = "done",
                 !.slack_error = run.aggregated_results # <<>>
                                 /\ run.client /\ slack_api_error]
    /\ slack' = IF run.aggregated_results # <<>> /\ run.client
                   /\ ~slack_api_error
                THEN Append(slack, [kind |-> "report",
                                    run_type |-> run.run_type,
                                    data |-> run.aggregated_results])
                ELSE slack
    /\ emails' = IF run.aggregated_results # <<>>
                    /\ run.email_automation = "service"
                    /\ run.run_type = "eod"
                 THEN emails
                      \o BatchNotifications(run.aggregated_results, 1)
                 ELSE emails
    /\ UNCHANGED <<sheets, calls>>
    /\ UNCHANGED sheetVars
    /\ UNCHANGED classifyVars
    /\ UNCHANGED retryVars
    /\ UNCHANGED jobVars

NextRun ==
    \/ Construct
    \/ \E post_raises \in BOOLEAN : FetchFails(post_raises)
    \/ FetchOk
    \/ DeptResolveRaises
    \/ DeptNoEmployees
    \/ DeptReadRaises
    \/ DeptClearRaises
    \/ DeptUpdateRaises
    \/ DeptFormatRaises
    \/ DeptOk
    \/ \E slack_api_error \in BOOLEAN : Report(slack_api_error)

SpecRun == InitRun /\ [][NextRun]_vars

(***************************************************************************)
(* Vocabulary of the claims about a run.                                   *)
(***************************************************************************)
\* the departments, in the order of the loop, whose processing returned
\* the statuses
Succeeded ==
    LET Returned(k) == run.outcomes[k] \in {"ok", "format_failed"}
        idx == { k \in 1..Len(run.outcomes) : Returned(k) }
        F[k \in 0..Len(run.outcomes)] ==
            IF k = 0 THEN <<>>
            ELSE IF k \in idx
            THEN Append(F[k - 1], run.departments_to_process[k])
            ELSE F[k - 1]
    IN F[Len(run.outcomes)]

\* the loop over the departments is over
LoopOver == run.pc \in {"report", "done"} /\ ~run.aborted

(***************************************************************************)
(* C20: in run_consolidated_report an exception raised while one           *)
(* department is processed does not end the loop: every department of      *)
(* the list is processed, the departments whose processing returned are    *)
(* the ones in aggregated_results and have their worksheet written, and    *)
(* when any is, the run posts one chat report with exactly those           *)
(* departments (given a chat client whose post is accepted).               *)
(***************************************************************************)
C20_DepartmentsIsolated ==
    /\ LoopOver =>
          /\ Len(run.outcomes) = Len(run.departments_to_process)
          /\ [k \in 1..Len(run.aggregated_results) |->
                 run.aggregated_results[k].department] = Succeeded
          /\ \A k \in 1..Len(Succeeded) : sheets[Succeeded[k]] # <<>>
    /\ (LoopOver /\ run.pc = "done" /\ Succeeded # <<>>
          /\ run.client /\ ~run.slack_error) =>
          /\ Len(slack) = 1
          /\ slack[1].kind = "report"
          /\ [k \in 1..Len(slack[1].data) |-> slack[1].data[k].department]
                = Succeeded

\* a run over HR and IT in which the update of the HR worksheet raised:
\* IT was processed and the chat report has IT only
C20_Witness ==
    /\ run.pc = "done"
    /\ run.departments_to_process = <<"HR", "IT">>
    /\ run.outcomes = <<"update_failed", "ok">>
    /\ sheets["HR"] = <<>>
    /\ sheets["IT"] # <<>>
    /\ Len(slack) = 1
    /\ slack[1].kind = "report"
    /\ Len(slack[1].data) = 1
    /\ slack[1].data[1].department = "IT"

(***************************************************************************)
(* C21: within one run of _update_department_sheet no formatting request   *)
(* (header format, conditional-format rule, data validation) is made on a  *)
(* worksheet before the update that writes the reconciled table has        *)
(* returned, and none is made when that update raised.  A list of          *)
(* departments names each worksheet once, so the requests of one run of    *)
(* _update_department_sheet are the requests on one worksheet.             *)
(***************************************************************************)
FormattingRequests == {"format", "addConditionalFormatRule",
                       "setDataValidation"}

C21_WriteBeforeFormatting ==
    \A k \in 1..Len(calls) :
        calls[k].request \in FormattingRequests =>
            /\ \E j \in 1..(k - 1) :
                  /\ calls[j].worksheet = calls[k].worksheet
                  /\ calls[j].request = "update"
                  /\ calls[j].ok
            /\ \A j \in 1..Len(calls) :
                  (calls[j].worksheet = calls[k].worksheet
                   /\ calls[j].request \in {"clear", "update"})
                  => calls[j].ok /\ j < k

\* a run over IT and HR: the update that writes the initial structure of
\* the empty IT worksheet raised and no formatting was requested on IT;
\* HR was cleared, written and then formatted
C21_Witness ==
    /\ run.pc = "done"
    /\ run.outcomes = <<"update_failed", "ok">>
    /\ \E j \in 1..Len(calls) :
          /\ calls[j].worksheet = "IT"
          /\ calls[j].request = "update"
          /\ ~calls[j].ok
    /\ \E k \in 1..Len(calls) :
          /\ calls[k].worksheet = "HR"
          /\ calls[k].request = "setDataValidation"
          /\ calls[k].ok

(***************************************************************************)
(* C23: every write to a department worksheet goes through the bounded     *)
(* retry on rate-limit errors: a request of _update_department_sheet that  *)
(* the Sheets API refuses for the rate limit is made again, so the         *)
(* department is not lost to one such error.                               *)
(***************************************************************************)
C23_RateLimitRetried ==
    \A k \in 1..Len(calls) :
        (/\ calls[k].request \in {"clear", "update"} \cup FormattingRequests
         /\ ~calls[k].ok
         /\ calls[k].error = "rate limit") =>
            /\ k < Len(calls)
            /\ calls[k + 1].worksheet = calls[k].worksheet
            /\ calls[k + 1].request = calls[k].request

(***************************************************************************)
(* C24: when the request to the time-tracking API or the request to the    *)
(* user-directory API has failed, run_consolidated_report is aborted: it   *)
(* makes no request on a worksheet, leaves the worksheets as they were,    *)
(* posts no attendance report, sends no email, and posts one warning to    *)
(* the channel (given a chat client that accepts the post).                *)
(***************************************************************************)
SourceFailed == IsNone(run.response) \/ run.user_info = "failed"

StartOfRunSheets ==
    [d \in DOMAIN DEPARTMENTS_CONFIG |->
        IF d = "HR"
        THEN <<<<"Name", "Email", "2024-01-01">>,
               <<"Carol", "carol@x.com", "Present">>>>
        ELSE <<>>]

C24_SourceFailureAborts ==
    (run.pc = "done" /\ SourceFailed) =>
        /\ run.aborted
        /\ calls = <<>>
        /\ sheets = StartOfRunSheets
        /\ emails = <<>>
        /\ (run.client /\ ~run.slack_error)
              => slack = <<[kind |-> "api_error"]>>
        /\ ~run.client => slack = <<>>

(***************************************************************************)
(* C25: with the credentials of a sink missing or invalid, constructing    *)
(* AttendanceReportGenerator succeeds with that sink disabled, and the     *)
(* run then does nothing against the disabled sink and raises nothing:     *)
(* no chat message without the Slack credentials, no request on a          *)
(* worksheet without the service account, no email without a Gmail token.  *)
(***************************************************************************)
C25_DisabledSinksAreNoOps ==
    /\ run.pc # "raised"
    /\ run.pc # "init" =>
          /\ ~run.slack_credentials => (~run.client /\ slack = <<>>)
          /\ run.google_credentials = "invalid" => calls = <<>>
          /\ run.gmail \in {"token invalid", "build fails"}
                => emails = <<>>

(***************************************************************************)
(* C26: an end-of-day run with the email service sends exactly one         *)
(* notification to each employee who is in the late or the absent bucket   *)
(* of a department of the run, also to an employee of several              *)
(* departments, and none to anyone else; a morning run sends no email.     *)
(***************************************************************************)
\* the employees in the late or absent bucket of some department
ToNotify ==
    UNION { { run.aggregated_results[k].status_data.late[n].email :
                n \in 1..Len(run.aggregated_results[k].status_data.late) }
            \cup
            { run.aggregated_results[k].status_data.absent[n].email :
                n \in 1..Len(run.aggregated_results[k].status_data.absent) }
            : k \in 1..Len(run.aggregated_results) }

NotificationsTo(email) == { k \in 1..Len(emails) : emails[k].to = email }

C26_OneNotificationEach ==
    run.pc = "done" =>
        IF run.run_type = "eod" /\ run.email_automation = "service"
        THEN /\ \A e \in ToNotify : Cardinality(NotificationsTo(e)) = 1
             /\ \A k \in 1..Len(emails) : emails[k].to \in ToNotify
        ELSE emails = <<>>

(***************************************************************************)
(* SpecRetry: one call of a function wrapped by with_retry                 *)
(* (weekly_attendance.py).  The wrapped function is a request to the       *)
(* Sheets API: each call of it returns, raises an APIError with some       *)
(* message, or raises another exception.  An error message is the list of  *)
(* its words.  Delays are in tenths of a second.                           *)
(***************************************************************************)
max_retries == 5

base_delay == 2

\* the messages of line 34
RateLimitMessages ==
    { <<"quota", "exceeded">>, <<"rate", "limit">>,
      <<"too", "many", "requests">>, <<"exceeds", "the", "limit">>,
      <<"request", "rate">> }

\* str(e) of the APIErrors the wrapped request raises
ErrorMessages ==
    { <<"Quota", "exceeded", "for", "quota", "metric">>,
      <<"429", "Too", "Many", "Requests">>,
      <<"Must", "specify", "at", "least", "one", "request">>,
      <<"Internal", "error", "encountered">> }

\* str.lower() on the words of the messages
LowerWord(w) ==
    CASE w = "Quota" -> "quota"
      [] w = "Too" -> "too"
      [] w = "Many" -> "many"
      [] w = "Requests" -> "requests"
      [] w = "Must" -> "must"
      [] w = "Internal" -> "internal"
      [] OTHER -> w

Lower(text) == [k \in 1..Len(text) |-> LowerWord(text[k])]

\* msg in error_msg
Contains(msg, error_msg) ==
    \E at \in 0..(Len(error_msg) - Len(msg)) :
        \A k \in 1..Len(msg) : error_msg[at + k] = msg[k]

\* lines 33-40
rate_limited(e) ==
    LET error_msg == Lower(e)
    IN  \E msg \in RateLimitMessages : Contains(msg, error_msg)

\* a variant of the test of line 42 that allows one retry more
Reraise_OneMore(is_rate_limited, retry_count) ==
    ~is_rate_limited \/ retry_count > max_retries

\* line 42: the wrapper re-raises the APIError
Reraise(is_rate_limited, retry_count) ==
    ~is_rate_limited \/ retry_count >= max_retries

RECURSIVE Pow(_, _)
Pow(b, n) == IF n = 0 THEN 1 ELSE b * Pow(b, n - 1)

\* random.uniform(0.1, 1.0), in tenths of a second: the ends of the range
Jitter == {1, 10}

\* line 47
Delay(retry_count, jitter) == Pow(base_delay, retry_count) * 10 + jitter

\* lines 25-27: the wrapper was called and has not called func yet
InitRetry ==
    /\ worksheet = <<>>
    /\ date = 1
    /\ pc = "idle"
    /\ runs = 0
    /\ employees = <<>>
    /\ first_entries = EmptyMap
    /\ status_data = NoStatus
    /\ outcome = "none"
    /\ c_in = EmptyMap
    /\ c_out = NotClassified
    /\ run = NoRun
    /\ sheets = NoSheets
    /\ slack = <<>>
    /\ emails = <<>>
    /\ calls = <<>>
    /\ jobs = NoJobs
    /\ retry = [pc |-> "call", retry_count |-> 0, attempts |-> <<>>,
                delays |-> <<>>, raised |-> <<>>]

RetryUnchanged ==
    /\ UNCHANGED sheetVars
    /\ UNCHANGED classifyVars
    /\ UNCHANGED runVars
    /\ UNCHANGED jobVars

\* line 31: func returns and the wrapper returns its value
CallReturns ==
    /\ retry.pc = "call"
    /\ retry' = [retry EXCEPT !.pc = "returned",
                              !.attempts = Append(@, [kind |-> "returned"])]
    /\ RetryUnchanged

\* line 31: func raises an exception that is no APIError; line 32 does not
\* catch it
CallRaisesOther ==
    /\ retry.pc = "call"
    /\ retry' = [retry EXCEPT !.pc = "raised",
                              !.attempts = Append(@, [kind |-> "Exception"]),
                              !.raised = <<[kind |-> "Exception"]>>]
    /\ RetryUnchanged

\* lines 32-43: func raises an APIError that the wrapper raises again
CallReraises(e) ==
    /\ retry.pc = "call"
    /\ Reraise(rate_limited(e), retry.retry_count)
    /\ retry' = [retry EXCEPT
                   !.pc = "raised",
                   !.attempts = Append(@, [kind |-> "APIError", e |-> e]),
                   !.raised = <<[kind |-> "APIError", e |-> e]>>]
    /\ RetryUnchanged

\* lines 32-49: func raises an APIError, the wrapper sleeps and goes back
\* to line 31
CallRetried(e, jitter) ==
    /\ retry.pc = "call"
    /\ ~Reraise(rate_limited(e), retry.retry_count)
    /\ retry' = [retry EXCEPT
                   !.retry_count = @ + 1,
                   !.attempts = Append(@, [kind |-> "APIError", e |-> e]),
                   !.delays = Append(@, Delay(retry.retry_count + 1, jitter))]
    /\ RetryUnchanged

NextRetry ==
    \/ CallReturns
    \/ CallRaisesOther
    \/ \E e \in ErrorMessages : CallReraises(e)
    \/ \E e \in ErrorMessages, jitter \in Jitter : CallRetried(e, jitter)

\* each call of func comes back and each sleep ends
SpecRetry == InitRetry /\ [][NextRetry]_vars /\ WF_vars(NextRetry)

(***************************************************************************)
(* C22: with_retry calls func again only after an APIError of the          *)
(* rate-limit class and only while fewer than 5 retries were made: any     *)
(* other error leaves the wrapper from the attempt that raised it, under   *)
(* persistent rate limiting the error of the 6th call is raised again, no  *)
(* more than 6 calls are made, and the wrapper terminates.                 *)
(***************************************************************************)
RateLimitClass(attempt) ==
    attempt.kind = "APIError" /\ rate_limited(attempt.e)

Terminated == retry.pc \in {"returned", "raised"}

RetryDiscipline ==
    LET n == Len(retry.attempts)
    IN  /\ n <= 6
        /\ \A k \in 2..n : /\ RateLimitClass(retry.attempts[k - 1])
                           /\ k - 2 < 5
        /\ \A k \in 1..n :
              ~RateLimitClass(retry.attempts[k]) =>
                  /\ k = n
                  /\ Terminated
                  /\ retry.attempts[k].kind = "returned"
                        => retry.pc = "returned"
                  /\ retry.attempts[k].kind # "returned"
                        => /\ retry.pc = "raised"
                           /\ retry.raised = <<retry.attempts[k]>>
        /\ (n = 6 /\ RateLimitClass(retry.attempts[n])) =>
              /\ retry.pc = "raised"
              /\ retry.raised = <<retry.attempts[n]>>
        /\ (n < 6 /\ n > 0 /\ RateLimitClass(retry.attempts[n])) =>
              (retry.pc = "call" /\ retry.retry_count = n)

C22_BoundedRetry == []RetryDiscipline /\ <>Terminated

\* the sixth call met the rate limit as the five before it had, and its
\* error was raised again
C22_Witness ==
    /\ retry.pc = "raised"
    /\ Len(retry.attempts) = 6
    /\ \A k \in 1..6 : RateLimitClass(retry.attempts[k])
    /\ Len(retry.delays) = 5

(***************************************************************************)
(* SpecJobs: the morning job of the department's report group and the      *)
(* end-of-day job, which covers all departments, on the worksheet of one   *)
(* department on one day.  main.py adds both to one BlockingScheduler,     *)
(* which runs the jobs that are due on the threads of its executor, and    *)
(* each job constructs its own AttendanceReportGenerator: nothing orders   *)
(* the requests of one job against those of the other, so the requests     *)
(* of the two jobs on the worksheet interleave in any order.  A step is    *)
(* one request of _update_department_sheet to the Sheets API.  The         *)
(* end-of-day job fetches later in the day: its payload has the reports    *)
(* and time entries of the morning payload and possibly more.              *)
(***************************************************************************)
JobNames == {"morning", "eod"}

Other(j) == IF j = "morning" THEN "eod" ELSE "morning"

\* the reports of the day on the department's project
JobReports == { r \in Reports : r.projects[1].projectName = "HR Project" }

JobPayloads == { [dateReport |-> r] : r \in SeqsUpTo(JobReports, MaxReports) }

IsPrefix(s, t) == Len(s) <= Len(t) /\ \A k \in 1..Len(s) : s[k] = t[k]

\* the later response of the time-tracking API for the same date
Extends(earlier, later) ==
    /\ Len(earlier.dateReport) <= Len(later.dateReport)
    /\ \A k \in 1..Len(earlier.dateReport) :
          /\ later.dateReport[k].email = earlier.dateReport[k].email
          /\ IsPrefix(earlier.dateReport[k].projects[1].tasks[1].timeEntries,
                      later.dateReport[k].projects[1].tasks[1].timeEntries)

\* worksheet.update(values) (lines 420 and 542): the values are written
\* from cell A1 on and the cells outside their range keep their values;
\* get_all_values gives the rows filled to one width
Overlay(ws, values) ==
    LET Widths == { Len(ws[r]) : r \in 1..Len(ws) }
                  \cup { Len(values[r]) : r \in 1..Len(values) } \cup {0}
        width == CHOOSE w \in Widths : \A v \in Widths : v <= w
        height == IF Len(ws) > Len(values) THEN Len(ws) ELSE Len(values)
    IN  [r \in 1..height |->
          [c \in 1..width |->
             IF r <= Len(values) /\ c <= Len(values[r]) THEN values[r][c]
             ELSE IF r <= Len(ws) /\ c <= Len(ws[r]) THEN ws[r][c]
             ELSE ""]]

InitJobs ==
    /\ worksheet \in StartSheets
    /\ date \in Dates
    /\ pc = "idle"
    /\ runs = 0
    /\ employees = <<>>
    /\ first_entries = EmptyMap
    /\ status_data = NoStatus
    /\ outcome = "none"
    /\ c_in = EmptyMap
    /\ c_out = NotClassified
    /\ run = NoRun
    /\ sheets = NoSheets
    /\ slack = <<>>
    /\ emails = <<>>
    /\ calls = <<>>
    /\ retry = NoRetry
    /\ \E m \in JobPayloads, e \in JobPayloads :
          /\ Extends(m, e)
          /\ jobs = [j \in JobNames |->
                       [pc |-> "start",
                        webwork_data |-> IF j = "morning" THEN m ELSE e,
                        existing_data |-> <<>>,
                        sheet_data |-> <<>>,
                        after_other |-> FALSE,
                        before |-> worksheet]]

JobEmployees(j) ==
    get_department_employees_from_webwork(jobs[j].webwork_data, Department)

JobUnchanged ==
    /\ UNCHANGED <<date, pc, runs, employees, first_entries, status_data,
                   outcome>>
    /\ UNCHANGED classifyVars
    /\ UNCHANGED runVars
    /\ UNCHANGED retryVars

\* lines 371-373: no employees for the department, no request is made
JobNoEmployees(j) ==
    /\ jobs[j].pc = "start"
    /\ JobEmployees(j) = <<>>
    /\ jobs' = [jobs EXCEPT ![j].pc = "done",
                            ![j].after_other = jobs[Other(j)].pc = "done"]
    /\ UNCHANGED worksheet
    /\ JobUnchanged

\* line 407, and lines 410-538 on the values read: the job holds the table
\* it is going to write
JobRead(j) ==
    /\ jobs[j].pc = "start"
    /\ JobEmployees(j) # <<>>
    /\ jobs' = [jobs EXCEPT
                  ![j].pc = IF worksheet = <<>> THEN "write_initial"
                            ELSE "clear",
                  ![j].existing_data = worksheet,
                  ![j].sheet_data =
                      update_department_sheet(
                          worksheet, JobEmployees(j),
                          get_first_check_in_times(jobs[j].webwork_data),
                          strftime(date), DepartmentStart(Department)),
                  ![j].after_other = jobs[Other(j)].pc = "done"]
    /\ UNCHANGED worksheet
    /\ JobUnchanged

\* line 420
JobWriteInitial(j) ==
    /\ jobs[j].pc = "write_initial"
    /\ worksheet' = Overlay(worksheet, jobs[j].sheet_data)
    /\ jobs' = [jobs EXCEPT ![j].pc = "done"]
    /\ JobUnchanged

\* line 541
JobClear(j) ==
    /\ jobs[j].pc = "clear"
    /\ worksheet' = <<>>
    /\ jobs' = [jobs EXCEPT ![j].pc = "update"]
    /\ JobUnchanged

\* line 542
JobUpdate(j) ==
    /\ jobs[j].pc = "update"
    /\ worksheet' = Overlay(worksheet, jobs[j].sheet_data)
    /\ jobs' = [jobs EXCEPT ![j].pc = "done"]
    /\ JobUnchanged

NextJobs ==
    \/ \E j \in JobNames : JobNoEmployees(j)
    \/ \E j \in JobNames : JobRead(j)
    \/ \E j \in JobNames : JobWriteInitial(j)
    \/ \E j \in JobNames : JobClear(j)
    \/ \E j \in JobNames : JobUpdate(j)

SpecJobs == InitJobs /\ [][NextJobs]_vars

(***************************************************************************)
(* Vocabulary of the claims about two jobs.                                *)
(***************************************************************************)
JobsDone == \A j \in JobNames : jobs[j].pc = "done"

\* the statuses in the column of the day of the rows of the email
StatusesOf(ws, normalized_email) ==
    IF strftime(date) \notin HeaderDates(ws) THEN {}
    ELSE { ws[i][DateColIndex(ws[1], strftime(date))] :
             i \in { r \in DataRows(ws) :
                       /\ HasEmail(ws[r])
                       /\ LowerStrip(ws[r][2]) = normalized_email } }

NotWorse(earlier, later) ==
    CASE earlier = "Present" -> later = "Present"
      [] earlier = "Late" -> later \in {"Present", "Late"}
      [] OTHER -> TRUE

(***************************************************************************)
(* C29: when the end-of-day job runs after the morning job has finished,   *)
(* on a payload that has every time entry of the morning payload, no       *)
(* status the morning job wrote for the day gets worse: Present stays      *)
(* Present, Late becomes Late or Present, Absent may become anything.      *)
(***************************************************************************)
C29_RerunNeverDowngrades ==
    (JobsDone /\ jobs["eod"].after_other) =>
        \A normalized_email \in { LowerStrip(e) : e \in Emails } :
            \A earlier \in StatusesOf(jobs["morning"].sheet_data,
                                      normalized_email) :
                \A later \in StatusesOf(worksheet, normalized_email) :
                    NotWorse(earlier, later)

(***************************************************************************)
(* C30: when the morning job and the end-of-day job work on the worksheet  *)
(* at overlapping times, whatever the order of their reads, clears and     *)
(* writes, the worksheet they leave has every row (by email) and every     *)
(* date column it had before either job started.                           *)
(***************************************************************************)
C30_OverlapKeepsRowsAndColumns ==
    JobsDone =>
        /\ { LowerStrip(e) : e \in RowEmails(jobs["eod"].before) }
              \subseteq { LowerStrip(e) : e \in RowEmails(worksheet) }
        /\ HeaderDates(jobs["eod"].before) \subseteq HeaderDates(worksheet)

====
